---- MODULE Spec2Model ----
(***************************************************************************)
(* Inspection completeness and metadata consistency: the save_inspection   *)
(* lambda (handler.py, metadata.py, summary.py, completeness.py) and the   *)
(* create_inspection lambda, over three DynamoDB tables: InspectionItems,  *)
(* InspectionMetadata and VenueRooms.  One inspection id is modelled.      *)
(* Every DynamoDB call is one atomic step; concurrent invocations          *)
(* interleave between their calls.  Reads return the latest write.         *)
(* Spec has no store failures; SpecReq lets describe_table, the item       *)
(* update_item attempts and the reads of the completeness evaluation fail. *)
(***************************************************************************)
EXTENDS Integers, Naturals, Sequences, FiniteSets, TLC

VARIABLES
    meta,        \* the InspectionMetadata row of the inspection, or NoItem
    items,       \* InspectionItems rows of the inspection: sort key -> row
    venues,      \* the VenueRooms table: venueId -> row (read-only here)
    faultsLeft,  \* store-call failures the environment may still inject
    clock,       \* source of _now_local_iso() values
    calls,       \* number of save_inspection invocations started so far
    creates,     \* number of create_inspection invocations so far
    pc,          \* per invocation slot: position in handle_save_inspection
    body,        \* per slot: the request body ("ins")
    now,         \* per slot: now / action_ts
    idx,         \* per slot: index of the next item of the batch loop
    written,     \* per slot: the written counter
    existing,    \* per slot: existing_data of the metadata-only branch
    summary,     \* per slot: the summary computed after the item loop
    hasNull,     \* per slot: has_null_completed
    skAttr,      \* per slot: sk_attr was discovered by describe_table
    completeness, \* per slot: the completeness result
    resp,        \* per slot: the response of the invocation
    everLocked,  \* history: the row has had status completed or a completedAt
    solo,        \* history, per slot: no other call has overlapped this one
    refused,     \* history: a save with items has been answered 403
    passed,      \* history, per slot: when the call finished its item writes,
                 \* its batch was all pass and so was every expected item
    check        \* input and result record of the pure-function specifications

vars == <<meta, items, venues, faultsLeft, clock, calls, creates, pc, body, now, idx,
          written, existing, summary, hasNull, skAttr, completeness, resp,
          everLocked, solo, refused, passed, check>>

-----------------------------------------------------------------------------
(* Bounds of the model *)

NumSlots == 2        \* concurrent save_inspection invocations
MaxCalls == 3        \* save_inspection invocations in one behaviour
MaxCreates == 1      \* create_inspection invocations in one behaviour

PageRows == 5        \* item rows that fit one response page of a query

Slots == 1..NumSlots

-----------------------------------------------------------------------------
(* Values *)

Absent == "<absent>"      \* the attribute / key is not present
Null == "<null>"          \* Python None, DynamoDB NULL

\* Python truthiness of a value obtained with dict.get
Truthy(v) == v \notin {Absent, Null, ""}

\* dict.get(k): an absent key reads as None
Get(v) == IF v = Absent THEN Null ELSE v

\* a or b
Or2(a, b) == IF Truthy(a) THEN a ELSE b

\* str.lower() on the status spellings of the model
Lower(s) ==
    CASE s = "PASS" -> "pass"
      [] s = "Pass" -> "pass"
      [] s = "FAIL" -> "fail"
      [] s = "NA" -> "na"
      [] OTHER -> s

\* str(v) inside an f-string
PyStr(v) == IF v \in {Null, Absent} THEN "None" ELSE v

\* _now_local_iso(): a timestamp string, distinct per clock value
NowIso(n) == "t" \o ToString(n)

-----------------------------------------------------------------------------
(* VenueRooms table *)

Item(iid) == [itemId |-> iid, id |-> Absent]
Room(rid, its) == [roomId |-> rid, id |-> Absent, items |-> its]

VenueTable ==
    [v \in {"V1"} |->
        [rooms |-> << Room("R1", <<Item("i1"), Item("i2")>>),
                      Room("R2", <<Item("i3")>>) >>]]

\* the venue of the concurrent specification: one room, so that one save
\* can record every expected item
OneRoomTable ==
    [v \in {"V1"} |-> [rooms |-> << Room("R1", <<Item("i1"), Item("i2")>>) >>]]

VenueGet(table, venue_id) ==
    IF venue_id \in DOMAIN table THEN table[venue_id] ELSE [rooms |-> <<>>]

-----------------------------------------------------------------------------
(* check_inspection_complete (completeness.py) *)

\* the (rid, iid) pairs of one room, in order, kept when both ids are truthy
RoomPairs(r) ==
    LET rid == Or2(Get(r.roomId), Get(r.id))
        all == [k \in 1..Len(r.items) |->
                    <<rid, Or2(Get(r.items[k].itemId), Get(r.items[k].id))>>]
        Keep(p) == Truthy(p[1]) /\ Truthy(p[2])
    IN  SelectSeq(all, Keep)

RECURSIVE ExpectedItems(_)
ExpectedItems(rooms) ==
    IF rooms = <<>> THEN <<>>
    ELSE RoomPairs(Head(rooms)) \o ExpectedItems(Tail(rooms))

\* the sort keys of the model in the order of the table (ascending byte
\* order); Filler(n) are the keys of further items of room R1
Filler(n) == "R1#x" \o ToString(n)

KeyOrder ==
    << "None#i1", "None#i2", "R1", "R1#", "R1#i1", "R1#i2" >>
    \o [n \in 1..(PageRows - 2) |-> Filler(n)]
    \o << "R2#i3", "__meta__", "i1", "i2", "i3" >>

KeyRank(k) == CHOOSE n \in 1..Len(KeyOrder) : KeyOrder[n] = k

\* the first response page of a query: the PageRows first rows in key order
FirstPage(store) ==
    LET ks == DOMAIN store
        first == {k \in ks :
                    Cardinality({j \in ks : KeyRank(j) < KeyRank(k)}) < PageRows}
    IN  [k \in first |-> store[k]]

\* table.query(KeyConditionExpression=Key(pk_attr).eq(inspection_id)): the
\* 'Items' of the response, which is the first page of the result; a
\* LastEvaluatedKey in the response is not looked at.  Rows that fit one
\* page are all in it.
Query(store) ==
    IF Cardinality(DOMAIN store) <= PageRows THEN store ELSE FirstPage(store)

\* the rows that enter status_map: roomId and itemId both truthy
Mapped(store) ==
    {k \in DOMAIN Query(store) :
        Truthy(Get(store[k].roomId)) /\ Truthy(Get(store[k].itemId))}

\* faulty variant: the status enters status_map without .lower()
StatusMapGet_NoLower(store, r, i) ==
    LET ks == {k \in DOMAIN store : store[k].roomId = r /\ store[k].itemId = i}
    IN  IF ks = {} THEN Null
        ELSE Or2(Get(store[CHOOSE k \in ks : TRUE].status), "")

\* status_map.get((r, i)): the lowercased status of the row, None without a row
StatusMapGet(store, r, i) ==
    LET ks == {k \in Mapped(store) : store[k].roomId = r /\ store[k].itemId = i}
    IN  IF ks = {} THEN Null
        ELSE Lower(Or2(Get(store[CHOOSE k \in ks : TRUE].status), ""))

\* pass_count: the rows of status_map's loop whose status is pass
PassCount(store) ==
    Cardinality({k \in Mapped(store) : Lower(Or2(Get(store[k].status), "")) = "pass"})

\* index of the first expected pair that is not pass, 0 when there is none:
\* the loop over expected returns at its first miss
FirstMiss(store, expected) ==
    LET bad == {n \in 1..Len(expected) :
                    StatusMapGet(store, expected[n][1], expected[n][2]) # "pass"}
    IN  IF bad = {} THEN 0 ELSE CHOOSE n \in bad : \A m \in bad : n <= m

Found(store, p) ==
    [roomId |-> p[1], itemId |-> p[2], found |-> StatusMapGet(store, p[1], p[2])]

\* a completeness result; the keys a result leaves out read as their defaults
\* (reason Absent, missing <<>>, counts 0); isNone marks Python None
Completeness(c, why, miss, exp, cnt) ==
    [isNone |-> FALSE, complete |-> c, reason |-> why, missing |-> miss,
     total_expected |-> exp, completed_count |-> cnt]

check_inspection_complete(store, table, venue_id) ==
    LET expected == ExpectedItems(VenueGet(table, venue_id).rooms)
        total_expected == Len(expected)
        miss == FirstMiss(store, expected)
    IN  IF total_expected = 0
        THEN Completeness(FALSE, "no expected items found", <<>>, 0, 0)
        ELSE IF miss # 0
        THEN Completeness(FALSE, Absent, << Found(store, expected[miss]) >>,
                          total_expected, PassCount(store))
        ELSE Completeness(TRUE, Absent, <<>>, total_expected, PassCount(store))

-----------------------------------------------------------------------------
(* handle_get_inspection_summary (summary.py) *)

\* faulty variant: the chain has no branch for na
Bucket_NoNa(st) == IF st \in {"pass", "fail"} THEN st ELSE "pending"

\* lines 38-45: the branch of the if/elif chain a lowercased status falls in
Bucket(st) == IF st \in {"pass", "fail", "na"} THEN st ELSE "pending"

\* line 35: (it.get('status') or 'pending').lower()
RowStatus(row) == Lower(Or2(Get(row.status), "pending"))

\* lines 27 and 48: a fresh set of counters
ZeroCounts == [pass |-> 0, fail |-> 0, na |-> 0, pending |-> 0, total |-> 0]

\* lines 37-45 and 49-57: total += 1 and the counter of the status += 1
Count(counts, st) ==
    [counts EXCEPT !.total = @ + 1, ![Bucket(st)] = @ + 1]

\* lines 30-34: rows counted: not the '__meta__' row, and with a truthy itemId
Counted(store) ==
    {k \in DOMAIN Query(store) : k # "__meta__" /\ Truthy(Get(store[k].itemId))}

\* lines 36 and 47-57: the row counted in the bucket of its room, created
\* on the room's first row; a row without roomId enters no bucket
CountRoom(by_room, rid, st) ==
    IF ~Truthy(rid) THEN by_room
    ELSE [r \in DOMAIN by_room \cup {rid} |->
            IF r = rid
            THEN Count(IF rid \in DOMAIN by_room THEN by_room[rid] ELSE ZeroCounts, st)
            ELSE by_room[r]]

\* lines 29-57: the loop over the rows ks still to visit
RECURSIVE SummaryLoop(_, _, _)
SummaryLoop(store, ks, acc) ==
    IF ks = {} THEN acc
    ELSE LET k == CHOOSE x \in ks : TRUE
             st == RowStatus(store[k])
         IN  SummaryLoop(store, ks \ {k},
                [totals |-> Count(acc.totals, st),
                 byRoom |-> CountRoom(acc.byRoom, Get(store[k].roomId), st)])

Summary(store) ==
    SummaryLoop(store, Counted(store), [totals |-> ZeroCounts, byRoom |-> <<>>])

-----------------------------------------------------------------------------
(* InspectionMetadata row *)

InspectionId == "inspection_1"

NoTotals == [present |-> FALSE,
             val |-> [pass |-> 0, fail |-> 0, na |-> 0, pending |-> 0, total |-> 0]]
NoByRoom == [present |-> FALSE, val |-> <<>>]
Present(v) == [present |-> TRUE, val |-> v]

\* no row: not even the key attribute
NoItem ==
    [inspectionId |-> Absent, status |-> Absent, completedAt |-> Absent,
     venueId |-> Absent, venueName |-> Absent, createdAt |-> Absent,
     createdBy |-> Absent, updatedAt |-> Absent, updatedBy |-> Absent,
     totals |-> NoTotals, byRoom |-> NoByRoom]

Exists(m) == m.inspectionId # Absent

\* update_item creates the row, with its key only, when there is none
UpdateBase(m) == IF Exists(m) THEN m ELSE [NoItem EXCEPT !.inspectionId = InspectionId]

\* the guard of handle_save_inspection: status completed, or a truthy completedAt
Locked(m) ==
    /\ Exists(m)
    /\ \/ Lower(Or2(Get(m.status), "")) = "completed"
       \/ Truthy(Get(m.completedAt))

-----------------------------------------------------------------------------
(* Requests *)

It(iid, st) == [itemId |-> iid, status |-> st]

Body(its, room, venue, vname, st, by) ==
    [inspection_id |-> InspectionId, id |-> Absent,
     items |-> its, roomId |-> room, venueId |-> venue, venueName |-> vname,
     status |-> st, updatedBy |-> by, createdBy |-> Absent,
     inspectorName |-> Absent]

\* a full all-pass batch, a failing item, an item outside the venue's rooms,
\* and a metadata-only save
SaveBodies ==
    { Body(<<It("i1", "pass"), It("i2", "PASS")>>, "R1", "V1", Absent, Absent, "ann"),
      Body(<<It("i2", "fail")>>, "R1", "V1", Absent, Absent, "bob"),
      Body(<<It("i3", "pass")>>, "R2", "V1", Absent, Absent, "bob"),
      Body(<<>>, Absent, "V1", "Hall A", Absent, "ann") }

CreateBodies ==
    { [venueId |-> "V1", venueName |-> "Hall A", status |-> Absent,
       completedAt |-> Absent, createdBy |-> "ann", updatedBy |-> Absent] }

-----------------------------------------------------------------------------
(* Per-invocation state *)

NoBody == Body(<<>>, Absent, Absent, Absent, Absent, Absent)
NoSummary == [totals |-> NoTotals.val, byRoom |-> <<>>]
NoCompleteness ==
    [isNone |-> TRUE, complete |-> FALSE, reason |-> Absent, missing |-> <<>>,
     total_expected |-> 0, completed_count |-> 0]
NoResp == [code |-> 0, message |-> Absent, inspection_id |-> Absent, written |-> 0,
           complete |-> NoCompleteness, inspectionData |-> NoItem]

build_response(code, msg, n, c, data) ==
    [code |-> code, message |-> msg, inspection_id |-> Absent, written |-> n,
     complete |-> c, inspectionData |-> data]

\* history: the row is, or has been, locked
Hist == everLocked' = (everLocked \/ Locked(meta'))

Locals == <<body, now, idx, written, existing, summary, hasNull, skAttr, completeness,
            passed>>
History == <<solo, refused>>

InFlight(p) == pc[p] \notin {"idle", "done"}

-----------------------------------------------------------------------------
(* handle_save_inspection (handler.py), one action per DynamoDB call *)

\* the invocation's local variables die when it returns
Return(p) ==
    /\ body' = [body EXCEPT ![p] = NoBody]
    /\ now' = [now EXCEPT ![p] = Absent]
    /\ idx' = [idx EXCEPT ![p] = 1]
    /\ written' = [written EXCEPT ![p] = 0]
    /\ existing' = [existing EXCEPT ![p] = NoItem]
    /\ summary' = [summary EXCEPT ![p] = NoSummary]
    /\ hasNull' = [hasNull EXCEPT ![p] = FALSE]
    /\ skAttr' = [skAttr EXCEPT ![p] = FALSE]
    /\ completeness' = [completeness EXCEPT ![p] = NoCompleteness]
    /\ passed' = [passed EXCEPT ![p] = FALSE]

\* faulty variant: the metadata row is read and tested before the id
GuardCode_LockFirst(ins, m) ==
    IF Locked(m) THEN 403
    ELSE IF ~Truthy(Or2(Get(ins.inspection_id), Get(ins.id))) THEN 400
    ELSE 0

\* lines 8-22: the status code the call is refused with, 0 when it goes on.
\* The id is tested before the metadata row is read.
GuardCode(ins, m) ==
    IF ~Truthy(Or2(Get(ins.inspection_id), Get(ins.id))) THEN 400
    ELSE IF Locked(m) THEN 403
    ELSE 0

\* lines 13 and 22: the refusal responses; the 403 body names the inspection
GuardResponse(code, ins) ==
    IF code = 400
    THEN build_response(400, "inspection_id is required", 0, NoCompleteness, NoItem)
    ELSE [build_response(403, "Cannot modify completed inspection", 0,
                         NoCompleteness, NoItem)
            EXCEPT !.inspection_id = Or2(Get(ins.inspection_id), Get(ins.id))]

\* lines 7-27: validation and the guard, on the row m that the guard read
\* returned after f failed store calls; a call that goes on takes now.
\* A call refused for its missing id keeps its body for the record.
GuardWith(p, bodies, m, f) ==
    /\ pc[p] \in {"idle", "done"}
    /\ \A q \in Slots : q < p => pc[q] \notin {"idle", "done"}
    /\ calls < MaxCalls
    /\ \E b \in bodies :
        LET code == GuardCode(b, m)
        IN  IF code # 0
            THEN /\ pc' = [pc EXCEPT ![p] = "done"]
                 /\ body' = [body EXCEPT ![p] = IF code = 400 THEN b ELSE NoBody]
                 /\ refused' = (refused \/ (code = 403 /\ Len(b.items) > 0))
                 /\ resp' = [resp EXCEPT ![p] = GuardResponse(code, b)]
                 /\ UNCHANGED <<now, clock>>
            ELSE /\ pc' = [pc EXCEPT ![p] =
                         IF Len(b.items) = 0 THEN "meta_read" ELSE "describe"]
                 /\ body' = [body EXCEPT ![p] = b]
                 /\ refused' = refused
                 /\ resp' = [resp EXCEPT ![p] = NoResp]
                 /\ now' = [now EXCEPT ![p] = NowIso(clock)]
                 /\ clock' = clock + 1
    /\ calls' = calls + 1
    /\ idx' = [idx EXCEPT ![p] = 1]
    /\ written' = [written EXCEPT ![p] = 0]
    /\ existing' = [existing EXCEPT ![p] = NoItem]
    /\ summary' = [summary EXCEPT ![p] = NoSummary]
    /\ hasNull' = [hasNull EXCEPT ![p] = FALSE]
    /\ skAttr' = [skAttr EXCEPT ![p] = FALSE]
    /\ completeness' = [completeness EXCEPT ![p] = NoCompleteness]
    /\ passed' = [passed EXCEPT ![p] = FALSE]
    /\ solo' = [q \in Slots |->
                    IF q = p THEN \A r \in Slots \ {p} : ~InFlight(r) ELSE
                    IF InFlight(q) THEN FALSE ELSE solo[q]]
    /\ faultsLeft' = faultsLeft - f
    /\ UNCHANGED <<meta, items, venues, creates, everLocked, check>>

\* line 16: the guard read returns the row
Guard(p, bodies) == GuardWith(p, bodies, meta, 0)

\* metadata.py lines 10-18: a get_item that raises is passed over and the
\* read returns (None, None), which line 17 takes for "no row"
GuardFault(p, bodies) == faultsLeft > 0 /\ GuardWith(p, bodies, NoItem, 1)

\* line 30: existing_data = the row, or {}
MetaRead(p) ==
    /\ pc[p] = "meta_read"
    /\ existing' = [existing EXCEPT ![p] = meta]
    /\ pc' = [pc EXCEPT ![p] = "meta_put"]
    /\ UNCHANGED <<meta, items, venues, faultsLeft, clock, calls, creates, body, now, idx,
                   written, summary, hasNull, skAttr, completeness, passed, resp,
                   everLocked, History, check>>

\* lines 33-46: insp_data_item; put_item stores exactly these attributes
InspDataItem(ins, existing_data, ts) ==
    LET E(a) == IF Exists(existing_data) THEN Get(a) ELSE Null
        created_by == Or2(Or2(Get(ins.createdBy), Get(ins.updatedBy)), "Unknown")
        venue_id_val == Or2(Get(ins.venueId), Null)
        venue_name_val == Or2(Get(ins.venueName), Null)
    IN  [inspectionId |-> InspectionId,
         createdAt |-> Or2(E(existing_data.createdAt), ts),
         updatedAt |-> ts,
         createdBy |-> Or2(E(existing_data.createdBy), created_by),
         updatedBy |-> Or2(Or2(Get(ins.updatedBy), E(existing_data.createdBy)), created_by),
         venueId |-> IF E(existing_data.venueId) # Null
                     THEN existing_data.venueId ELSE venue_id_val,
         venueName |-> IF E(existing_data.venueName) # Null
                       THEN existing_data.venueName ELSE venue_name_val,
         status |-> Or2(Get(ins.status),
                        IF Exists(existing_data) THEN Get(existing_data.status)
                        ELSE "in-progress"),
         completedAt |-> Absent,
         totals |-> NoTotals,
         byRoom |-> NoByRoom]

\* line 50: put_item replaces the row
MetaPut(p) ==
    /\ pc[p] = "meta_put"
    /\ meta' = InspDataItem(body[p], existing[p], now[p])
    /\ Hist
    /\ pc' = [pc EXCEPT ![p] = "meta_ret"]
    /\ UNCHANGED <<items, venues, faultsLeft, clock, calls, creates, Locals, resp, History, check>>

\* lines 51-56: read the row back and return 200
MetaReturn(p) ==
    /\ pc[p] = "meta_ret"
    /\ resp' = [resp EXCEPT ![p] =
            [build_response(200, "Saved (meta)", 0, NoCompleteness, meta)
                EXCEPT !.inspection_id =
                    Or2(Get(body[p].inspection_id), Get(body[p].id))]]
    /\ pc' = [pc EXCEPT ![p] = "done"]
    /\ Return(p)
    /\ UNCHANGED <<meta, items, venues, faultsLeft, clock, calls, creates, everLocked, History, check>>

\* line 120: the composite sort key
SortKey(room_id, item_id) == PyStr(room_id) \o "#" \o item_id

\* faulty variant: createdAt is set like updatedAt, without if_not_exists
UpsertItem_NewCreatedAt(store, key, ins, it, item_id, ts) ==
    LET had == key \in DOMAIN store
    IN  [updatedAt |-> ts,
         createdAt |-> ts,
         status |-> Get(it.status),
         roomId |-> Get(ins.roomId),
         itemId |-> item_id,
         venueId |-> IF Get(ins.venueId) # Null THEN ins.venueId
                     ELSE IF had THEN store[key].venueId ELSE Absent,
         venueName |-> IF Get(ins.venueName) # Null THEN ins.venueName
                       ELSE IF had THEN store[key].venueName ELSE Absent]

\* lines 85-112: the row update_item leaves at the key
UpsertItem(store, key, ins, it, item_id, ts) ==
    LET had == key \in DOMAIN store
    IN  [updatedAt |-> ts,
         createdAt |-> IF had /\ store[key].createdAt # Absent
                       THEN store[key].createdAt ELSE ts,
         status |-> Get(it.status),
         roomId |-> Get(ins.roomId),
         itemId |-> item_id,
         venueId |-> IF Get(ins.venueId) # Null THEN ins.venueId
                     ELSE IF had THEN store[key].venueId ELSE Absent,
         venueName |-> IF Get(ins.venueName) # Null THEN ins.venueName
                       ELSE IF had THEN store[key].venueName ELSE Absent]

\* faulty variant: the write leaves the written row alone in the table
PutRow_DropsOthers(store, key, row) ==
    [k \in {key} |-> row]

\* update_item touches the row at the key and no other
PutRow(store, key, row) ==
    [k \in DOMAIN store \cup {key} |-> IF k = key THEN row ELSE store[k]]

\* lines 63-73: describe_table; sk_attr is the RANGE attribute of the table,
\* None when the call fails.  InspectionItems has a RANGE attribute (the
\* composite key of line 120 is its value).
DescribeTable(p) ==
    /\ pc[p] = "describe"
    /\ \/ /\ skAttr' = [skAttr EXCEPT ![p] = TRUE]
          /\ UNCHANGED faultsLeft
       \/ /\ faultsLeft > 0
          /\ faultsLeft' = faultsLeft - 1
          /\ skAttr' = [skAttr EXCEPT ![p] = FALSE]
    /\ pc' = [pc EXCEPT ![p] = "items"]
    /\ UNCHANGED <<meta, items, venues, clock, calls, creates, body, now, idx,
                   written, existing, summary, hasNull, completeness, passed, resp,
                   everLocked, History, check>>

\* lines 117-124: the sort-key values tried in turn; Absent is the key with
\* the partition attribute only
KeyShapes(sk_attr, room_id, item_id) ==
    IF sk_attr
    THEN << SortKey(room_id, item_id), room_id, item_id, Absent >>
    ELSE << Absent >>

\* the table takes a key whose RANGE attribute is a non-empty string; a key
\* without it, or with None, is a validation error
Writable(k) == Truthy(k)

\* faulty variant: an iteration that wrote nothing goes on like any other
ItemPc_Continue(wrote, last) ==
    IF last THEN "summary" ELSE "items"

\* lines 138-150: where the call goes after one iteration
ItemPc(wrote, last) ==
    IF ~wrote THEN "done" ELSE IF last THEN "summary" ELSE "items"

\* every pair of the venue's expected set, which is not empty, has a row
\* whose status is pass
AllExpectedPass(store, table, venue_id) ==
    LET expected == ExpectedItems(VenueGet(table, venue_id).rooms)
    IN  /\ Len(expected) > 0
        /\ \A n \in 1..Len(expected) :
              \E k \in DOMAIN store :
                 /\ store[k].roomId = expected[n][1]
                 /\ store[k].itemId = expected[n][2]
                 /\ Lower(Get(store[k].status)) = "pass"

\* history: what the record of a call that has left the batch loop says
FinishedAllPass(ins, store) ==
    /\ Truthy(Get(ins.venueId))
    /\ \A k \in 1..Len(ins.items) : Lower(Get(ins.items[k].status)) = "pass"
    /\ AllExpectedPass(store, venues, ins.venueId)

\* lines 80-150: one iteration of the batch loop.  n is the key shape whose
\* update_item succeeds, 0 when every attempt fails; any n but the first
\* writable shape takes injected failures of the attempts before it.
ItemStep(p) ==
    /\ pc[p] = "items"
    /\ LET ins == body[p]
           it == ins.items[idx[p]]
           item_id == Get(it.itemId)
           last == idx[p] = Len(ins.items)
           shapes == KeyShapes(skAttr[p], Get(ins.roomId), item_id)
           ok == {n \in 1..Len(shapes) : Writable(shapes[n])}
           first == IF ok = {} THEN 0 ELSE CHOOSE n \in ok : \A m \in ok : n <= m
       IN  IF ~Truthy(item_id)
           THEN /\ pc' = [pc EXCEPT ![p] = ItemPc(TRUE, last)]
                /\ idx' = [idx EXCEPT ![p] = @ + 1]
                /\ passed' = [passed EXCEPT ![p] = last /\ FinishedAllPass(ins, items)]
                /\ UNCHANGED <<items, written, faultsLeft, resp, body, now,
                               existing, summary, hasNull, skAttr, completeness>>
           ELSE \E n \in ok \cup {0} :
                /\ n # first => faultsLeft > 0
                /\ faultsLeft' = IF n # first THEN faultsLeft - 1 ELSE faultsLeft
                /\ pc' = [pc EXCEPT ![p] = ItemPc(n # 0, last)]
                /\ IF n = 0
                   THEN /\ resp' = [resp EXCEPT ![p] =
                                build_response(500, "Failed to save inspection items",
                                               0, NoCompleteness, NoItem)]
                        /\ Return(p)
                        /\ UNCHANGED items
                   ELSE /\ items' = PutRow(items, shapes[n],
                                UpsertItem(items, shapes[n], ins, it, item_id, now[p]))
                        /\ written' = [written EXCEPT ![p] = @ + 1]
                        /\ idx' = [idx EXCEPT ![p] = @ + 1]
                        /\ passed' = [passed EXCEPT ![p] =
                                last /\ FinishedAllPass(ins, items')]
                        /\ UNCHANGED <<resp, body, now, existing, summary, hasNull,
                                       skAttr, completeness>>
    /\ UNCHANGED <<meta, venues, clock, calls, creates, everLocked, History, check>>

\* line 177: handle_get_inspection_summary queries the item rows
Summarize(p) ==
    /\ pc[p] = "summary"
    /\ summary' = [summary EXCEPT ![p] = Summary(items)]
    /\ pc' = [pc EXCEPT ![p] = "cache"]
    /\ UNCHANGED <<meta, items, venues, faultsLeft, clock, calls, creates, body, now, idx,
                   written, existing, hasNull, skAttr, completeness, passed, resp,
                   everLocked, History, check>>

\* faulty variant: the update expression sets totals and leaves byRoom out
CacheRow_TotalsOnly(m, s) ==
    [UpdateBase(m) EXCEPT !.totals = Present(s.totals)]

\* lines 193-198: SET totals = :t, byRoom = :br
CacheRow(m, s) ==
    [UpdateBase(m) EXCEPT !.totals = Present(s.totals), !.byRoom = Present(s.byRoom)]

Cache(p) ==
    /\ pc[p] = "cache"
    /\ meta' = CacheRow(meta, summary[p])
    /\ Hist
    /\ pc' = [pc EXCEPT ![p] = "meta_read2"]
    /\ UNCHANGED <<items, venues, faultsLeft, clock, calls, creates, Locals, resp, History, check>>

\* lines 214-215: the key read back is 'completedAt)', which no row has, so
\* the last conjunct is "not None"
HasNullCompleted(existing_meta) ==
    /\ Exists(existing_meta)
    /\ existing_meta.completedAt # Absent
    /\ ~Truthy(Null)

MetaRead2(p) ==
    /\ pc[p] = "meta_read2"
    /\ hasNull' = [hasNull EXCEPT ![p] = HasNullCompleted(meta)]
    /\ pc' = [pc EXCEPT ![p] = "meta_update"]
    /\ UNCHANGED <<meta, items, venues, faultsLeft, clock, calls, creates, body, now, idx,
                   written, existing, summary, skAttr, completeness, passed, resp,
                   everLocked, History, check>>

\* faulty variant: the update leaves updatedAt as it is
TouchRow_KeepsUpdatedAt(m, ins, ts, has_null_completed) ==
    LET base == UpdateBase(m)
    IN  [base EXCEPT
            !.updatedBy = Or2(Get(ins.updatedBy), Get(ins.createdBy)),
            !.venueId = IF Get(ins.venueId) # Null THEN ins.venueId ELSE @,
            !.venueName = IF Get(ins.venueName) # Null THEN ins.venueName ELSE @,
            !.completedAt = IF has_null_completed THEN Absent ELSE @]

\* lines 217-235: SET updatedAt, updatedBy [, venueId] [, venueName]
\* [REMOVE completedAt]
TouchRow(m, ins, ts, has_null_completed) ==
    LET base == UpdateBase(m)
    IN  [base EXCEPT
            !.updatedAt = ts,
            !.updatedBy = Or2(Get(ins.updatedBy), Get(ins.createdBy)),
            !.venueId = IF Get(ins.venueId) # Null THEN ins.venueId ELSE @,
            !.venueName = IF Get(ins.venueName) # Null THEN ins.venueName ELSE @,
            !.completedAt = IF has_null_completed THEN Absent ELSE @]

MetaUpdate(p) ==
    /\ pc[p] = "meta_update"
    /\ meta' = TouchRow(meta, body[p], now[p], hasNull[p])
    /\ Hist
    /\ pc' = [pc EXCEPT ![p] = "complete"]
    /\ UNCHANGED <<items, venues, faultsLeft, clock, calls, creates, Locals, resp, History, check>>

\* faulty variant: the status is compared as submitted, without .lower()
ProvidedNonPass_CaseSensitive(its) ==
    \E k \in 1..Len(its) : Or2(Get(its[k].status), "") # "pass"

\* line 243: any item of the payload whose status is not pass
ProvidedNonPass(its) ==
    \E k \in 1..Len(its) : Lower(Or2(Get(its[k].status), "")) # "pass"

\* faulty variant: completeness is evaluated whether or not the request
\* carries a venueId
SaveCompleteness_NoVenueTest(ins, store, table) ==
    IF ProvidedNonPass(ins.items)
    THEN Completeness(FALSE, "non-pass item in provided payload", <<>>, 0, 0)
    ELSE check_inspection_complete(store, table, ins.venueId)

\* lines 240-251: the completeness result of the save
SaveCompleteness(ins, store, table) ==
    IF ~Truthy(Get(ins.venueId)) THEN NoCompleteness
    ELSE IF ProvidedNonPass(ins.items)
    THEN Completeness(FALSE, "non-pass item in provided payload", <<>>, 0, 0)
    ELSE check_inspection_complete(store, table, ins.venueId)

\* faulty variant: the exception reads as an empty expected set
CheckFailed_AsEmpty == Completeness(FALSE, "no expected items found", <<>>, 0, 0)

\* lines 250-251: an exception of check_inspection_complete (the venue
\* get_item, describe_table or the item query) leaves completeness None
CheckFailed == NoCompleteness

\* line 249 is reached: a truthy venueId and an all-pass payload
CallsCheck(ins) == Truthy(Get(ins.venueId)) /\ ~ProvidedNonPass(ins.items)

CompleteCheck(p) ==
    /\ pc[p] = "complete"
    /\ \E failed \in BOOLEAN :
        /\ failed => (faultsLeft > 0 /\ CallsCheck(body[p]))
        /\ faultsLeft' = IF failed THEN faultsLeft - 1 ELSE faultsLeft
        /\ LET c == IF failed THEN CheckFailed
                    ELSE SaveCompleteness(body[p], items, venues)
           IN  /\ completeness' = [completeness EXCEPT ![p] = c]
               /\ pc' = [pc EXCEPT ![p] =
                        IF ~c.isNone /\ c.complete THEN "complete_write" ELSE "final"]
    /\ UNCHANGED <<meta, items, venues, clock, calls, creates, body, now, idx,
                   written, existing, summary, hasNull, skAttr, passed, resp,
                   everLocked, History, check>>

\* faulty variant: the transition sets the status and leaves completedAt out
CompleteRow_NoCompletedAt(m, ins, ts) ==
    [UpdateBase(m) EXCEPT
        !.status = "completed",
        !.updatedAt = ts,
        !.updatedBy = Or2(Get(ins.updatedBy), Get(ins.createdBy))]

\* line 256: SET #s = completed, updatedAt, completedAt, updatedBy
CompleteRow(m, ins, ts) ==
    [UpdateBase(m) EXCEPT
        !.status = "completed",
        !.updatedAt = ts,
        !.completedAt = ts,
        !.updatedBy = Or2(Get(ins.updatedBy), Get(ins.createdBy))]

CompleteWrite(p) ==
    /\ pc[p] = "complete_write"
    /\ meta' = CompleteRow(meta, body[p], now[p])
    /\ Hist
    /\ pc' = [pc EXCEPT ![p] = "final"]
    /\ UNCHANGED <<items, venues, faultsLeft, clock, calls, creates, Locals, resp, History, check>>

\* metadata.py lines 28-49: when update_item raises for every key tried,
\* update_inspection_metadata returns False; line 256 does not look at the
\* value, and the row stays as it is
CompleteWriteFault(p) ==
    /\ pc[p] = "complete_write"
    /\ faultsLeft > 0
    /\ faultsLeft' = faultsLeft - 1
    /\ pc' = [pc EXCEPT ![p] = "final"]
    /\ UNCHANGED <<meta, items, venues, clock, calls, creates, Locals, resp,
                   everLocked, History, check>>

\* lines 266-282: read the row and return 200
Final(p) ==
    /\ pc[p] = "final"
    /\ resp' = [resp EXCEPT ![p] =
            build_response(200, "Saved", written[p], completeness[p], meta)]
    /\ pc' = [pc EXCEPT ![p] = "done"]
    /\ Return(p)
    /\ UNCHANGED <<meta, items, venues, faultsLeft, clock, calls, creates, everLocked, History, check>>

-----------------------------------------------------------------------------
(* create_inspection (create_inspection.py) *)

\* lines 127-155: the row put_item writes
CreateRow(ins, ts) ==
    LET created_by == Or2(Or2(Get(ins.createdBy), Get(ins.updatedBy)), "Unknown")
    IN  [inspectionId |-> InspectionId,
         createdAt |-> ts,
         updatedAt |-> ts,
         createdBy |-> created_by,
         updatedBy |-> Or2(Get(ins.updatedBy), created_by),
         venueId |-> Or2(Get(ins.venueId), Null),
         venueName |-> Or2(Get(ins.venueName), Null),
         status |-> Or2(Or2(Get(ins.status), "in-progress"), "in-progress"),
         completedAt |-> Or2(Or2(Get(ins.completedAt), Null), Null),
         totals |-> NoTotals,
         byRoom |-> NoByRoom]

CreateInspection ==
    /\ creates < MaxCreates
    /\ \E b \in CreateBodies : meta' = CreateRow(b, NowIso(clock))
    /\ Hist
    /\ clock' = clock + 1
    /\ creates' = creates + 1
    /\ solo' = [q \in Slots |-> IF InFlight(q) THEN FALSE ELSE solo[q]]
    /\ UNCHANGED <<items, venues, faultsLeft, calls, pc, Locals, resp, refused, check>>

-----------------------------------------------------------------------------
(* The concurrent specification *)

NoCheck == [venueId |-> Absent, result |-> NoCompleteness]

Init ==
    /\ meta = NoItem
    /\ items = <<>>
    /\ venues = OneRoomTable
    /\ faultsLeft = 0
    /\ clock = 1
    /\ calls = 0
    /\ creates = 0
    /\ pc = [p \in Slots |-> "idle"]
    /\ body = [p \in Slots |-> NoBody]
    /\ now = [p \in Slots |-> Absent]
    /\ idx = [p \in Slots |-> 1]
    /\ written = [p \in Slots |-> 0]
    /\ existing = [p \in Slots |-> NoItem]
    /\ summary = [p \in Slots |-> NoSummary]
    /\ hasNull = [p \in Slots |-> FALSE]
    /\ skAttr = [p \in Slots |-> FALSE]
    /\ completeness = [p \in Slots |-> NoCompleteness]
    /\ resp = [p \in Slots |-> NoResp]
    /\ everLocked = FALSE
    /\ solo = [p \in Slots |-> TRUE]
    /\ refused = FALSE
    /\ passed = [p \in Slots |-> FALSE]
    /\ check = NoCheck

Next ==
    \/ CreateInspection
    \/ \E p \in Slots : Guard(p, SaveBodies)
    \/ \E p \in Slots : MetaRead(p)
    \/ \E p \in Slots : MetaPut(p)
    \/ \E p \in Slots : MetaReturn(p)
    \/ \E p \in Slots : DescribeTable(p)
    \/ \E p \in Slots : ItemStep(p)
    \/ \E p \in Slots : Summarize(p)
    \/ \E p \in Slots : Cache(p)
    \/ \E p \in Slots : MetaRead2(p)
    \/ \E p \in Slots : MetaUpdate(p)
    \/ \E p \in Slots : CompleteCheck(p)
    \/ \E p \in Slots : CompleteWrite(p)
    \/ \E p \in Slots : Final(p)

Spec == Init /\ [][Next]_vars

-----------------------------------------------------------------------------
(* The pure-function specification: check_inspection_complete applied to     *)
(* bounded venue definitions and item stores                                 *)

PureStatuses == {"pass", "PASS", "fail", "na", "pending", "bogus", Null}

\* an item row as the batch loop writes it, at its composite key
PureRow(room, iid, st) ==
    [updatedAt |-> "t1", createdAt |-> "t1", status |-> st, roomId |-> room,
     itemId |-> iid, venueId |-> Absent, venueName |-> Absent]

\* the last pair is an item saved by a request without roomId
PurePairs == { <<"R1", "i1">>, <<"R1", "i2">>, <<"R2", "i3">>, <<Null, "i1">> }

\* the store holding the pairs ps, the row of pair pr with status f[pr], each
\* row at the key its roomId and itemId give
StoreOf(ps, f) ==
    [k \in {SortKey(pr[1], pr[2]) : pr \in ps} |->
        LET pr == CHOOSE q \in ps : SortKey(q[1], q[2]) = k
        IN  PureRow(pr[1], pr[2], f[pr])]

PureStores ==
    UNION { {StoreOf(ps, f) : f \in [ps -> PureStatuses]} : ps \in SUBSET PurePairs }

PureVenueTables ==
    { VenueTable,
      [v \in {"V1"} |->
          [rooms |-> << [roomId |-> Absent, id |-> "R1",
                         items |-> << [itemId |-> Absent, id |-> "i1"],
                                      [itemId |-> Absent, id |-> Absent] >>],
                        [roomId |-> Absent, id |-> Absent,
                         items |-> << Item("i3") >>] >>]],
      [v \in {"V1"} |-> [rooms |-> << Room("R2", <<>>) >>]],
      [v \in {"V2"} |-> [rooms |-> << Room("R1", <<Item("i1")>>) >>]] }

InitPure ==
    /\ meta = NoItem
    /\ items \in PureStores
    /\ venues \in PureVenueTables
    /\ faultsLeft = 0
    /\ clock = 1
    /\ calls = 0
    /\ creates = 0
    /\ pc = [p \in Slots |-> "idle"]
    /\ body = [p \in Slots |-> NoBody]
    /\ now = [p \in Slots |-> Absent]
    /\ idx = [p \in Slots |-> 1]
    /\ written = [p \in Slots |-> 0]
    /\ existing = [p \in Slots |-> NoItem]
    /\ summary = [p \in Slots |-> NoSummary]
    /\ hasNull = [p \in Slots |-> FALSE]
    /\ skAttr = [p \in Slots |-> FALSE]
    /\ completeness = [p \in Slots |-> NoCompleteness]
    /\ resp = [p \in Slots |-> NoResp]
    /\ everLocked = FALSE
    /\ solo = [p \in Slots |-> TRUE]
    /\ refused = FALSE
    /\ passed = [p \in Slots |-> FALSE]
    /\ check = NoCheck

\* lambda_function.py: action 'check_inspection_complete'
CheckComplete ==
    /\ check = NoCheck
    /\ check' = [venueId |-> "V1",
                 result |-> check_inspection_complete(items, venues, "V1")]
    /\ UNCHANGED <<meta, items, venues, faultsLeft, clock, calls, creates, pc, Locals, resp,
                   everLocked, History>>

NextPure == CheckComplete

SpecPure == InitPure /\ [][NextPure]_vars

-----------------------------------------------------------------------------
(* The request specification: save_inspection calls with every shape of      *)
(* request body, over a store that can fail a call                           *)

MaxReqCalls == 2     \* save_inspection invocations in one behaviour
MaxFaults == 1       \* store failures in one behaviour (the failed attempts of
                     \* one loop iteration count as one)

\* V1 as above; V0 is a venue whose only room has no items; any other venue
\* id has no row
ReqTable ==
    [v \in {"V1", "V0"} |->
        IF v = "V1" THEN OneRoomTable["V1"]
        ELSE [rooms |-> << Room("R9", <<>>) >>]]

\* a full all-pass batch for V1; a batch without venue id; batches for an
\* unknown and for an empty venue; metadata-only saves carrying a status,
\* a venue name only, and nothing; a batch without inspection id
ReqBodies ==
    { Body(<<It("i1", "pass"), It("i2", "PASS")>>, "R1", "V1", Absent, Absent, "ann"),
      Body(<<It("i1", "pass"), It("i2", "pass")>>, "R1", Absent, Absent, Absent, "bob"),
      Body(<<It("i1", "pass")>>, "R1", "V9", Absent, Absent, "bob"),
      Body(<<It("i1", "pass")>>, "R1", "V0", Absent, Absent, "bob"),
      Body(<<>>, Absent, "V0", Absent, "completed", "ann"),
      Body(<<>>, Absent, Absent, "New Venue", Absent, "ann"),
      Body(<<>>, Absent, Absent, Absent, Absent, "bob"),
      [Body(<<It("i1", "pass")>>, "R1", "V1", Absent, Absent, "ann")
          EXCEPT !.inspection_id = Absent] }

InitReq ==
    /\ meta = NoItem
    /\ items = <<>>
    /\ venues = ReqTable
    /\ faultsLeft = MaxFaults
    /\ clock = 1
    /\ calls = 0
    /\ creates = 0
    /\ pc = [p \in Slots |-> "idle"]
    /\ body = [p \in Slots |-> NoBody]
    /\ now = [p \in Slots |-> Absent]
    /\ idx = [p \in Slots |-> 1]
    /\ written = [p \in Slots |-> 0]
    /\ existing = [p \in Slots |-> NoItem]
    /\ summary = [p \in Slots |-> NoSummary]
    /\ hasNull = [p \in Slots |-> FALSE]
    /\ skAttr = [p \in Slots |-> FALSE]
    /\ completeness = [p \in Slots |-> NoCompleteness]
    /\ resp = [p \in Slots |-> NoResp]
    /\ everLocked = FALSE
    /\ solo = [p \in Slots |-> TRUE]
    /\ refused = FALSE
    /\ passed = [p \in Slots |-> FALSE]
    /\ check = NoCheck

GuardReq(p) == calls < MaxReqCalls /\ Guard(p, ReqBodies)

NextReq ==
    \/ \E p \in Slots : GuardReq(p)
    \/ \E p \in Slots : MetaRead(p)
    \/ \E p \in Slots : MetaPut(p)
    \/ \E p \in Slots : MetaReturn(p)
    \/ \E p \in Slots : DescribeTable(p)
    \/ \E p \in Slots : ItemStep(p)
    \/ \E p \in Slots : Summarize(p)
    \/ \E p \in Slots : Cache(p)
    \/ \E p \in Slots : MetaRead2(p)
    \/ \E p \in Slots : MetaUpdate(p)
    \/ \E p \in Slots : CompleteCheck(p)
    \/ \E p \in Slots : CompleteWrite(p)
    \/ \E p \in Slots : Final(p)

SpecReq == InitReq /\ [][NextReq]_vars

-----------------------------------------------------------------------------
(* Properties *)

\* the slot that takes the next call
Starts(p) ==
    /\ calls' = calls + 1
    /\ ~InFlight(p)
    /\ \A q \in Slots : q < p => InFlight(q)

StatusCompleted(m) == Exists(m) /\ m.status = "completed"

\* all slots are idle or have returned
Quiescent == \A p \in Slots : ~InFlight(p)

\* C1: once the metadata row has had status completed (or a completedAt
\* value), every save_inspection call that starts afterwards is answered 403
\* and leaves the item rows and the metadata row unchanged.  Stated for
\* behaviours of save_inspection calls alone (no create_inspection).
C1_LockedRejectsLaterSaves ==
    [][\A p \in Slots :
          (everLocked /\ creates = 0 /\ Starts(p)) =>
              /\ pc'[p] = "done"
              /\ resp'[p].code = 403
              /\ UNCHANGED <<meta, items>>]_vars

\* C2: whenever the metadata row has status completed, every pair of the
\* expected set of the venue (V1, the venue of every save) is pass in the
\* item rows.
C2_CompletedImpliesAllPass ==
    StatusCompleted(meta) =>
        \A n \in 1..Len(ExpectedItems(venues["V1"].rooms)) :
            LET pr == ExpectedItems(venues["V1"].rooms)[n]
            IN  \E k \in DOMAIN items :
                    /\ items[k].roomId = pr[1]
                    /\ items[k].itemId = pr[2]
                    /\ items[k].status \in {"pass", "PASS"}

\* C3: no item row is created or modified in a state where the metadata row
\* already has status completed.
C3_NoItemWriteWhenCompleted ==
    [][StatusCompleted(meta) => items' = items]_vars

\* C4: status is one-way: once completed, it never afterwards becomes
\* in-progress or absent.
C4_StatusOneWay ==
    [][StatusCompleted(meta) => StatusCompleted(meta')]_vars

\* C5: an in-progress metadata row has no completedAt attribute at all
\* (neither a timestamp nor a null-valued key), and a completed one has a
\* completedAt timestamp.
C5_CompletedAtMatchesStatus ==
    Exists(meta) =>
        /\ meta.status = "in-progress" => meta.completedAt = Absent
        /\ meta.status = "completed" => Truthy(Get(meta.completedAt))

\* C6: once the metadata row has a completedAt timestamp, no step of a
\* save_inspection call removes it or replaces it with a different value.
C6_CompletedAtWrittenOnce ==
    [][(Truthy(Get(meta.completedAt)) /\ creates' = creates) =>
            meta'.completedAt = meta.completedAt]_vars

\* the cached totals and byRoom of row m are the summary of the item rows
CacheIs(m, store) ==
    /\ m.totals = Present(Summary(store).totals)
    /\ m.byRoom = Present(Summary(store).byRoom)

\* a save with items returns its 200 response
ReturnsSaved(p) == pc[p] = "final" /\ pc'[p] = "done"

C8_CacheFreshWhenQuiescent ==
    (Quiescent /\ creates = 0 /\ ~refused /\ DOMAIN items # {}) =>
        CacheIs(meta, items)

\* C9: check_inspection_complete returns complete = TRUE exactly when the
\* expected set of the venue is non-empty and every pair in it has an item
\* row whose status is pass in any letter case.
C9_CompleteIffAllPass ==
    LET rooms == VenueGet(venues, check.venueId).rooms
        E == UNION { { << Or2(Get(rooms[n].roomId), Get(rooms[n].id)),
                          Or2(Get(rooms[n].items[m].itemId),
                              Get(rooms[n].items[m].id)) >>
                       : m \in 1..Len(rooms[n].items) }
                     : n \in 1..Len(rooms) }
        ESet == {pr \in E : Truthy(pr[1]) /\ Truthy(pr[2])}
        Pass(pr) == \E k \in DOMAIN items :
                        /\ items[k].roomId = pr[1]
                        /\ items[k].itemId = pr[2]
                        /\ items[k].status \in {"pass", "PASS", "Pass"}
    IN  check # NoCheck =>
            (check.result.complete <=> (ESet # {} /\ \A pr \in ESet : Pass(pr)))

\* C9 witness: complete = TRUE came out for a store whose rows include an
\* upper-case PASS.
C9_Witness ==
    /\ check # NoCheck
    /\ check.result.complete
    /\ \E k \in DOMAIN items : items[k].status = "PASS"

\* C10: when check_inspection_complete returns complete = FALSE for a
\* non-empty expected set, missing holds exactly the expected pairs whose
\* status is not pass, each with the status found, or none without a row.
C10_MissingListsEveryPair ==
    LET expected == ExpectedItems(VenueGet(venues, check.venueId).rooms)
        r == check.result
        NotPass == {n \in 1..Len(expected) :
                      ~\E k \in DOMAIN items :
                            /\ items[k].roomId = expected[n][1]
                            /\ items[k].itemId = expected[n][2]
                            /\ items[k].status \in {"pass", "PASS", "Pass"}}
    IN  (check # NoCheck /\ ~r.complete /\ Len(expected) > 0) =>
            { <<r.missing[j].roomId, r.missing[j].itemId, r.missing[j].found>>
                : j \in 1..Len(r.missing) }
              = { <<expected[n][1], expected[n][2],
                    StatusMapGet(items, expected[n][1], expected[n][2])>>
                  : n \in NotPass }

\* a step of the in-flight invocation p
Acts(p) == InFlight(p) /\ pc'[p] # pc[p]

\* no store call has failed up to and including this step
NoFaultYet == faultsLeft' = MaxFaults

\* the venue has no row, or no room of its row has an item
NoExpected(v) ==
    \/ v \notin DOMAIN venues
    \/ \A n \in 1..Len(venues[v].rooms) : venues[v].rooms[n].items = <<>>

\* C11: for a venueId with no venue row, or whose row yields no (roomId,
\* itemId) pair, check_inspection_complete returns complete = FALSE with
\* reason 'no expected items found' and total_expected 0, and no step of a
\* save_inspection call carrying that venueId sets status to completed.
C11_EmptyVenueNeverCompletes ==
    [][\A p \in Slots :
          (Acts(p) /\ NoFaultYet /\ Truthy(Get(body[p].venueId))
                   /\ NoExpected(body[p].venueId)) =>
              /\ (pc[p] = "complete" /\ CallsCheck(body[p])) =>
                    /\ ~completeness'[p].isNone
                    /\ ~completeness'[p].complete
                    /\ completeness'[p].reason = "no expected items found"
                    /\ completeness'[p].total_expected = 0
              /\ StatusCompleted(meta') => StatusCompleted(meta)]_vars

\* C11, the part that holds: the same for calls with a non-empty batch
C11_EmptyVenueBatchNeverCompletes ==
    [][\A p \in Slots :
          (Acts(p) /\ Truthy(Get(body[p].venueId)) /\ NoExpected(body[p].venueId)
                   /\ Len(body[p].items) > 0) =>
              /\ (pc[p] = "complete" /\ CallsCheck(body[p])
                                     /\ faultsLeft' = faultsLeft) =>
                    /\ ~completeness'[p].isNone
                    /\ ~completeness'[p].complete
                    /\ completeness'[p].reason = "no expected items found"
                    /\ completeness'[p].total_expected = 0
              /\ StatusCompleted(meta') => StatusCompleted(meta)]_vars

\* C12: a save_inspection call with items and without a venue id never
\* evaluates completeness (its result stays None), never takes the completion
\* write, none of its steps changes status to completed, whatever the item
\* rows and the batch hold, and its response carries complete = null.
C12_NoVenueNoCompletion ==
    [][\A p \in Slots :
          (Acts(p) /\ Len(body[p].items) > 0 /\ ~Truthy(Get(body[p].venueId))) =>
              /\ completeness'[p].isNone
              /\ pc'[p] # "complete_write"
              /\ meta'.status = "completed" => meta.status = "completed"
              /\ pc[p] = "final" =>
                    /\ resp'[p].code = 200
                    /\ resp'[p].complete.isNone]_vars

\* C12 witness: a first save of two pass items for R1 = {i1, i2} without
\* venue id has returned 200 with complete = null; every expected item of
\* V1 is pass in the item rows and the row is not completed.
C12_Witness ==
    /\ calls = 1 /\ pc[1] = "done" /\ faultsLeft = MaxFaults
    /\ resp[1].code = 200 /\ resp[1].written = 2 /\ resp[1].complete.isNone
    /\ meta.venueId = Absent
    /\ check_inspection_complete(items, venues, "V1").complete
    /\ ~StatusCompleted(meta)

\* an iteration of p's batch loop: it moves the loop index or sets the
\* response
ItemAttempt(p) ==
    pc[p] = "items" /\ (idx'[p] # idx[p] \/ resp'[p] # resp[p])

\* an iteration for an item with an id that leaves no item row written
UpsertFailed(p) ==
    /\ ItemAttempt(p)
    /\ Truthy(Get(body[p].items[idx[p]].itemId))
    /\ items' = items

\* C13: when the upsert of the k-th item of a batch fails, the call returns
\* a 500 response at that step (so no item after k is written, and no
\* cache, updatedAt or status write follows), and no step of the call up to
\* there has changed the metadata row.
C13_ItemFailureAborts ==
    [][\A p \in Slots :
          /\ UpsertFailed(p) =>
                /\ pc'[p] = "done"
                /\ resp'[p].code = 500
                /\ resp'[p].message = "Failed to save inspection items"
          /\ (pc[p] \in {"describe", "items"} /\ Acts(p)) => meta' = meta
          /\ ItemAttempt(p) => meta' = meta]_vars

\* C13 witness: the second item of a first batch failed: the call is
\* answered 500, the first item's row is there, the second is not, and there
\* is no metadata row.
C13_Witness ==
    /\ calls = 1 /\ pc[1] = "done"
    /\ resp[1].code = 500
    /\ DOMAIN items = {"R1#i1"}
    /\ ~Exists(meta)

\* C14: every item row written by save_inspection sits at the sort key
\* roomId#itemId of its own roomId and itemId; no row is written under a
\* room-only, item-only or partition-only key.
C14_ItemsAtCompositeKey ==
    \A k \in DOMAIN items : k = SortKey(items[k].roomId, items[k].itemId)

\* the part of C14 that holds: when describe_table failed, the iteration for
\* an item with an id writes nothing and the call is answered 500
SchemaUnknownSaveFails ==
    [][\A p \in Slots :
          (ItemAttempt(p) /\ ~skAttr[p]
                          /\ Truthy(Get(body[p].items[idx[p]].itemId))) =>
              /\ items' = items
              /\ pc'[p] = "done"
              /\ resp'[p].code = 500]_vars

\* the item of p's current iteration is already stored, at its composite
\* key, with the fields the request submits
Resubmits(p) ==
    /\ pc[p] = "items"
    /\ idx'[p] = idx[p] + 1
    /\ LET ins == body[p]
           it == ins.items[idx[p]]
           k == SortKey(ins.roomId, it.itemId)
       IN  /\ k \in DOMAIN items
           /\ items[k].status = Get(it.status)
           /\ items[k].roomId = Get(ins.roomId)
           /\ items[k].itemId = it.itemId
           /\ Get(ins.venueId) # Null => items[k].venueId = ins.venueId
           /\ Get(ins.venueName) # Null => items[k].venueName = ins.venueName

\* the rows of the store for one (roomId, itemId)
RowsOf(store, room, iid) ==
    {k \in DOMAIN store : store[k].roomId = room /\ store[k].itemId = iid}

\* C15: when a save submits an item that an earlier save stored with the
\* same fields, the upsert leaves the same set of rows, one row for that
\* (roomId, itemId), equal to the stored one but for updatedAt; createdAt is
\* the one the first save set.  No step changes the createdAt of a row.
C15_IdempotentUpsert ==
    [][/\ \A p \in Slots :
            Resubmits(p) =>
                LET k == SortKey(body[p].roomId, body[p].items[idx[p]].itemId)
                IN  /\ DOMAIN items' = DOMAIN items
                    /\ items' = [items EXCEPT ![k].updatedAt = now[p]]
                    /\ items'[k].createdAt = items[k].createdAt
                    /\ Cardinality(RowsOf(items', items[k].roomId,
                                          items[k].itemId)) = 1
       /\ \A k \in DOMAIN items :
            k \in DOMAIN items' /\ items'[k].createdAt = items[k].createdAt]_vars

\* C15 witness: item i3 of room R2, which one request body alone submits,
\* has been saved twice: one row, created by the first save and updated by
\* a later one.
C15_Witness ==
    /\ "R2#i3" \in DOMAIN items
    /\ items["R2#i3"].createdAt # items["R2#i3"].updatedAt
    /\ Cardinality(RowsOf(items, "R2", "i3")) = 1
    /\ Quiescent

\* C16: across save_inspection calls (with items or metadata-only), a
\* venueId or venueName of the metadata row that is non-null never becomes
\* null or absent.
C16_VenueFieldsNeverNulled ==
    [][NoFaultYet =>
          /\ Truthy(Get(meta.venueId)) => Truthy(Get(meta'.venueId))
          /\ Truthy(Get(meta.venueName)) => Truthy(Get(meta'.venueName))]_vars

\* the part of C16 that holds: the same for the steps of a call that no
\* other call overlaps, and a call without venueId / venueName leaves the
\* field as it reads (None for an absent one)
VenueFieldsKeptBySoloCall ==
    [][\A p \in Slots :
          (Acts(p) /\ solo[p]) =>
              /\ Truthy(Get(meta.venueId)) => Truthy(Get(meta'.venueId))
              /\ Truthy(Get(meta.venueName)) => Truthy(Get(meta'.venueName))
              /\ (Get(body[p].venueId) = Null /\ Exists(meta)) =>
                    Get(meta'.venueId) = Get(meta.venueId)
              /\ (Get(body[p].venueName) = Null /\ Exists(meta)) =>
                    Get(meta'.venueName) = Get(meta.venueName)]_vars

\* C17: a save_inspection call with an empty items list never evaluates
\* completeness and none of its steps changes the status of the metadata row
\* from in-progress to completed, whatever the request body carries.  Stated
\* for calls that no other call overlaps.
C17_MetaOnlyNeverCompletes ==
    [][\A p \in Slots :
          (Acts(p) /\ solo[p] /\ Len(body[p].items) = 0) =>
              /\ completeness'[p].isNone
              /\ pc'[p] \notin {"complete", "complete_write"}
              /\ ~(meta.status = "in-progress" /\ meta'.status = "completed")]_vars

\* the part of C17 that holds: such a call never reaches the completeness
\* evaluation nor the completion write
MetaOnlySkipsCompleteness ==
    [][\A p \in Slots :
          (Acts(p) /\ Len(body[p].items) = 0) =>
              /\ completeness'[p].isNone
              /\ pc'[p] \notin {"complete", "complete_write"}]_vars

\* C18: once a save_inspection call has returned 200 for the inspection id
\* and no call is in flight, there is a metadata row for the id, its status
\* is in-progress or completed, and its createdAt is set.
C18_FirstSaveLeavesStatus ==
    (Quiescent /\ faultsLeft = MaxFaults /\ \E p \in Slots : resp[p].code = 200) =>
        /\ Exists(meta)
        /\ meta.status \in {"in-progress", "completed"}
        /\ Truthy(Get(meta.createdAt))

\* the part of C18 that holds: the same after a first save that is
\* metadata-only
FirstMetaOnlySaveLeavesStatus ==
    (calls = 1 /\ \E p \in Slots : resp[p].message = "Saved (meta)") =>
        /\ Exists(meta)
        /\ meta.status \in {"in-progress", "completed"}
        /\ Truthy(Get(meta.createdAt))

\* the request carries no inspection id
NoId(ins) == ~Truthy(Get(ins.inspection_id)) /\ ~Truthy(Get(ins.id))

\* C19: a save_inspection request with no inspection id is answered 400 at
\* its first step, whatever the metadata row holds (the row is not consulted:
\* a 403 always names an inspection), with no table changed; only such
\* requests are answered 400.
C19_MissingIdRejectedFirst ==
    [][\A p \in Slots :
          Starts(p) =>
              /\ NoId(body'[p]) =>
                    /\ resp'[p].code = 400
                    /\ pc'[p] = "done"
                    /\ UNCHANGED <<meta, items, venues>>
              /\ resp'[p].code = 403 => Truthy(Get(resp'[p].inspection_id))
              /\ resp'[p].code = 400 => NoId(body'[p])]_vars

\* C19 witness: the second call, a request without id, arrived after the
\* first call had completed the inspection, and was answered 400.
C19_Witness ==
    /\ calls = 2 /\ Quiescent
    /\ Locked(meta)
    /\ NoId(body[1])
    /\ resp[1].code = 400

\* C20: when a read inside the completeness evaluation of a save with items
\* fails, the result stays None (neither an empty expected set nor an
\* evaluated FALSE), the call skips the completion write and changes no
\* table at that step; a call whose result is None returns 200 with
\* complete = null, the item rows and the metadata row left as they were.
C20_CheckFailureLeavesNull ==
    [][\A p \in Slots :
          /\ (pc[p] = "complete" /\ Acts(p) /\ faultsLeft' < faultsLeft) =>
                /\ completeness'[p].isNone
                /\ pc'[p] = "final"
                /\ UNCHANGED <<meta, items>>
          /\ (pc[p] = "final" /\ Acts(p) /\ completeness[p].isNone) =>
                /\ resp'[p].code = 200
                /\ resp'[p].complete.isNone
                /\ resp'[p].written = written[p]
                /\ UNCHANGED <<meta, items>>]_vars

\* C20 witness: a first save of the full all-pass batch for V1 has written
\* both rows, the completeness evaluation failed, and the call returned 200
\* with complete = null; the row is not completed.
C20_Witness ==
    /\ calls = 1 /\ pc[1] = "done" /\ faultsLeft = 0
    /\ resp[1].code = 200 /\ resp[1].written = 2 /\ resp[1].complete.isNone
    /\ DOMAIN items = {"R1#i1", "R1#i2"}
    /\ meta.venueId = "V1"
    /\ ~StatusCompleted(meta)

-----------------------------------------------------------------------------
(* The two-room specification: save_inspection calls, one room each, for a   *)
(* venue with two rooms, over a store that does not fail                     *)

MaxRoomCalls == 3    \* save_inspection invocations in one behaviour

\* the all-pass batch of room R1, item i3 of room R2 as pass and as fail, and
\* the request of tests/test_save_inspection_updated_at.py: two items, no
\* roomId, a venue without a row, the author under inspectorName alone
RoomBodies ==
    { Body(<<It("i1", "pass"), It("i2", "PASS")>>, "R1", "V1", Absent, Absent, "ann"),
      Body(<<It("i3", "pass")>>, "R2", "V1", Absent, Absent, "bob"),
      Body(<<It("i3", "fail")>>, "R2", "V1", Absent, Absent, "bob"),
      [Body(<<It("i1", "pass"), It("i2", "pass")>>, Absent, "venue_x", Absent,
            Absent, Absent)
          EXCEPT !.inspectorName = "Tester"] }

InitRooms ==
    /\ meta = NoItem
    /\ items = <<>>
    /\ venues = VenueTable
    /\ faultsLeft = 0
    /\ clock = 1
    /\ calls = 0
    /\ creates = 0
    /\ pc = [p \in Slots |-> "idle"]
    /\ body = [p \in Slots |-> NoBody]
    /\ now = [p \in Slots |-> Absent]
    /\ idx = [p \in Slots |-> 1]
    /\ written = [p \in Slots |-> 0]
    /\ existing = [p \in Slots |-> NoItem]
    /\ summary = [p \in Slots |-> NoSummary]
    /\ hasNull = [p \in Slots |-> FALSE]
    /\ skAttr = [p \in Slots |-> FALSE]
    /\ completeness = [p \in Slots |-> NoCompleteness]
    /\ resp = [p \in Slots |-> NoResp]
    /\ everLocked = FALSE
    /\ solo = [p \in Slots |-> TRUE]
    /\ refused = FALSE
    /\ passed = [p \in Slots |-> FALSE]
    /\ check = NoCheck

GuardRooms(p) == calls < MaxRoomCalls /\ Guard(p, RoomBodies)

NextRooms ==
    \/ \E p \in Slots : GuardRooms(p)
    \/ \E p \in Slots : DescribeTable(p)
    \/ \E p \in Slots : ItemStep(p)
    \/ \E p \in Slots : Summarize(p)
    \/ \E p \in Slots : Cache(p)
    \/ \E p \in Slots : MetaRead2(p)
    \/ \E p \in Slots : MetaUpdate(p)
    \/ \E p \in Slots : CompleteCheck(p)
    \/ \E p \in Slots : CompleteWrite(p)
    \/ \E p \in Slots : Final(p)

SpecRooms == InitRooms /\ [][NextRooms]_vars

-----------------------------------------------------------------------------
(* Properties of the two-room specification *)

\* the response says complete, and the row has status completed and a
\* completedAt value
SaysComplete(r, m) ==
    /\ ~r.complete.isNone
    /\ r.complete.complete
    /\ StatusCompleted(m)
    /\ Truthy(Get(m.completedAt))

NonPassExpected(ins, table) ==
    LET expected == ExpectedItems(VenueGet(table, ins.venueId).rooms)
    IN  {k \in 1..Len(ins.items) :
            /\ Lower(Get(ins.items[k].status)) # "pass"
            /\ \E n \in 1..Len(expected) :
                  expected[n] = <<Get(ins.roomId), Get(ins.items[k].itemId)>>}

\* C22: when a save with a venueId submits an expected item with a non-pass
\* status, its response has complete.complete false, complete.missing lists
\* that pair with the status found, and the metadata row's status is
\* in-progress.
C22_NonPassListedAsMissing ==
    [][\A p \in Slots :
          (ReturnsSaved(p) /\ Truthy(Get(body[p].venueId))) =>
              \A k \in NonPassExpected(body[p], venues) :
                  /\ ~resp'[p].complete.isNone
                  /\ ~resp'[p].complete.complete
                  /\ \E n \in 1..Len(resp'[p].complete.missing) :
                        resp'[p].complete.missing[n] =
                            [roomId |-> body[p].roomId,
                             itemId |-> body[p].items[k].itemId,
                             found |-> Lower(body[p].items[k].status)]
                  /\ meta'.status = "in-progress"]_vars

\* what does hold for such a save: the result is the short-circuit one,
\* incomplete with a reason and no missing list, and the call does not write
\* the completed status
NonPassSaveReportsIncomplete ==
    [][\A p \in Slots :
          /\ (ReturnsSaved(p) /\ Truthy(Get(body[p].venueId))
                /\ NonPassExpected(body[p], venues) # {}) =>
                resp'[p].complete =
                    Completeness(FALSE, "non-pass item in provided payload", <<>>, 0, 0)
          /\ (pc'[p] = "complete_write" /\ Acts(p)) =>
                NonPassExpected(body[p], venues) = {}]_vars

StatusCounts == {"pass", "fail", "na", "pending", "total"}

\* the sum of counter f over the rooms of a byRoom mapping
RECURSIVE RoomSum(_, _, _)
RoomSum(by_room, rooms, f) ==
    IF rooms = {} THEN 0
    ELSE LET r == CHOOSE x \in rooms : TRUE
         IN  by_room[r][f] + RoomSum(by_room, rooms \ {r}, f)

\* every counter of totals is the sum of that counter over the rooms
TotalsAreRoomSums(totals, by_room) ==
    \A f \in StatusCounts : totals[f] = RoomSum(by_room, DOMAIN by_room, f)

\* C23: whenever the metadata row holds totals and byRoom, each counter of
\* totals (total, pass, fail, na, pending) equals the sum of that counter
\* over the rooms of byRoom, items saved without a roomId included.
C23_TotalsAreRoomSums ==
    (meta.totals.present /\ meta.byRoom.present) =>
        TotalsAreRoomSums(meta.totals.val, meta.byRoom.val)

\* what does hold: the sums agree as long as every item row has a roomId
RoomSumsWhenRowsHaveRoom ==
    (meta.totals.present /\ meta.byRoom.present
        /\ \A k \in DOMAIN items : Truthy(Get(items[k].roomId))) =>
        TotalsAreRoomSums(meta.totals.val, meta.byRoom.val)

-----------------------------------------------------------------------------
(* The summary specification: handle_get_inspection_summary applied to       *)
(* bounded item stores                                                       *)

\* rows the loop passes over: the legacy '__meta__' row and a row without
\* itemId
LegacyRows ==
    [k \in {"__meta__", "R1#"} |->
        IF k = "__meta__" THEN PureRow(Absent, Absent, Absent)
        ELSE PureRow("R1", Null, "pass")]

\* the stores of the pure-function specification, alone and with legacy rows
SummaryStores ==
    { [k \in DOMAIN s \cup ks |-> IF k \in ks THEN LegacyRows[k] ELSE s[k]] :
        s \in PureStores, ks \in SUBSET DOMAIN LegacyRows }

InitSummary ==
    /\ meta = NoItem
    /\ items \in SummaryStores
    /\ venues = VenueTable
    /\ faultsLeft = 0
    /\ clock = 1
    /\ calls = 0
    /\ creates = 0
    /\ pc = [p \in Slots |-> "idle"]
    /\ body = [p \in Slots |-> NoBody]
    /\ now = [p \in Slots |-> Absent]
    /\ idx = [p \in Slots |-> 1]
    /\ written = [p \in Slots |-> 0]
    /\ existing = [p \in Slots |-> NoItem]
    /\ summary = [p \in Slots |-> NoSummary]
    /\ hasNull = [p \in Slots |-> FALSE]
    /\ skAttr = [p \in Slots |-> FALSE]
    /\ completeness = [p \in Slots |-> NoCompleteness]
    /\ resp = [p \in Slots |-> NoResp]
    /\ everLocked = FALSE
    /\ solo = [p \in Slots |-> TRUE]
    /\ refused = FALSE
    /\ passed = [p \in Slots |-> FALSE]
    /\ check = NoCheck

\* lambda_function.py: action 'get_inspection_summary', one invocation
GetInspectionSummary ==
    /\ pc[1] = "idle"
    /\ summary' = [summary EXCEPT ![1] = Summary(items)]
    /\ pc' = [pc EXCEPT ![1] = "done"]
    /\ UNCHANGED <<meta, items, venues, faultsLeft, clock, calls, creates, body, now,
                   idx, written, existing, hasNull, skAttr, completeness, passed,
                   resp, everLocked, History, check>>

NextSummary == GetInspectionSummary

SpecSummary == InitSummary /\ [][NextSummary]_vars

\* the item records of a store: the rows with an itemId, the '__meta__' row
\* excepted
ItemRecords(store) ==
    {k \in DOMAIN store : k # "__meta__" /\ Truthy(Get(store[k].itemId))}

\* counters c count the records ks of the store by lowercased status
CountsRecords(c, store, ks) ==
    LET Low(k) == Lower(Get(store[k].status))
    IN  /\ c.pass = Cardinality({k \in ks : Low(k) = "pass"})
        /\ c.fail = Cardinality({k \in ks : Low(k) = "fail"})
        /\ c.na = Cardinality({k \in ks : Low(k) = "na"})
        /\ c.pending = Cardinality({k \in ks : Low(k) \notin {"pass", "fail", "na"}})
        /\ c.total = c.pass + c.fail + c.na + c.pending
        /\ c.total = Cardinality(ks)

\* C24: for every set of item records, the summary's totals count under
\* pass, fail and na the records whose lowercased status is that value and
\* under pending every other record (no status, or an unrecognized one), and
\* total = pass + fail + na + pending; byRoom has one bucket per roomId of
\* the records, counting the records of that room the same way.
C24_SummaryCountsByStatus ==
    pc[1] = "done" =>
        LET recs == ItemRecords(items)
            rooms == {items[k].roomId : k \in {j \in recs : Truthy(Get(items[j].roomId))}}
        IN  /\ CountsRecords(summary[1].totals, items, recs)
            /\ DOMAIN summary[1].byRoom = rooms
            /\ \A r \in rooms :
                  CountsRecords(summary[1].byRoom[r], items,
                                {k \in recs : items[k].roomId = r})

\* C24 witness: four records (statuses PASS, pass, na and none) in two rooms
\* next to a '__meta__' row have been summarized as pass 2, na 1, pending 1.
C24_Witness ==
    /\ pc[1] = "done"
    /\ "__meta__" \in DOMAIN items
    /\ summary[1].totals = [pass |-> 2, fail |-> 0, na |-> 1, pending |-> 1, total |-> 4]
    /\ \E k \in DOMAIN items : items[k].status = "PASS"
    /\ \E k \in DOMAIN items : items[k].status = Null /\ Truthy(items[k].itemId)
    /\ summary[1].byRoom = [r \in {"R1", "R2"} |->
            IF r = "R1" THEN [pass |-> 1, fail |-> 0, na |-> 1, pending |-> 0, total |-> 2]
            ELSE [pass |-> 0, fail |-> 0, na |-> 0, pending |-> 1, total |-> 1]]

-----------------------------------------------------------------------------
(* The paging specification: the summary and the completeness evaluation     *)
(* applied to item stores of up to one row more than a response page         *)

PagedPairs ==
    { <<"R1", "i1">>, <<"R1", "i2">>, <<"R2", "i3">> }
    \cup { <<"R1", "x" \o ToString(n)>> : n \in 1..(PageRows - 2) }

\* every expected item and every further item of room R1, or all but the
\* last further item; each row pass or fail
PagedStores ==
    UNION { {StoreOf(ps, f) : f \in [ps -> {"pass", "fail"}]} :
            ps \in {PagedPairs, PagedPairs \ {<<"R1", "x" \o ToString(PageRows - 2)>>}} }

InitPages ==
    /\ meta = NoItem
    /\ items \in PagedStores
    /\ venues = VenueTable
    /\ faultsLeft = 0
    /\ clock = 1
    /\ calls = 0
    /\ creates = 0
    /\ pc = [p \in Slots |-> "idle"]
    /\ body = [p \in Slots |-> NoBody]
    /\ now = [p \in Slots |-> Absent]
    /\ idx = [p \in Slots |-> 1]
    /\ written = [p \in Slots |-> 0]
    /\ existing = [p \in Slots |-> NoItem]
    /\ summary = [p \in Slots |-> NoSummary]
    /\ hasNull = [p \in Slots |-> FALSE]
    /\ skAttr = [p \in Slots |-> FALSE]
    /\ completeness = [p \in Slots |-> NoCompleteness]
    /\ resp = [p \in Slots |-> NoResp]
    /\ everLocked = FALSE
    /\ solo = [p \in Slots |-> TRUE]
    /\ refused = FALSE
    /\ passed = [p \in Slots |-> FALSE]
    /\ check = NoCheck

NextPages == GetInspectionSummary \/ CheckComplete

SpecPages == InitPages /\ [][NextPages]_vars

\* C25: the summary and the completeness evaluation take every item record
\* into account, also when the query result has more than one page: the
\* summary's total is the number of item records, and the evaluation says
\* complete exactly when every expected item has a row with status pass.
C25_EveryPageCounted ==
    /\ pc[1] = "done" =>
          summary[1].totals.total = Cardinality(ItemRecords(items))
    /\ check # NoCheck =>
          (check.result.complete <=> AllExpectedPass(items, venues, "V1"))

\* what does hold: both are right for a result of one page
OnePageCounted ==
    Cardinality(DOMAIN items) <= PageRows => C25_EveryPageCounted

-----------------------------------------------------------------------------
(* handle_list_inspections (list_inspections.py) and the listing             *)
(* specification: the function applied to bounded contents of the            *)
(* InspectionMetadata table and bounded requests                             *)

DEFAULT_COMPLETED_LIMIT == 6

MaxRows == 7         \* rows of the InspectionMetadata table

\* a value of the request under a limit key: none, a number, a numeric
\* string, or a string that is no number
NoLimit == [kind |-> "none", n |-> 0]
Num(n) == [kind |-> "num", n |-> n]
Str(n) == [kind |-> "str", n |-> n]
BadLimit == [kind |-> "bad", n |-> 0]

\* Python truthiness of such a value: a non-empty string, a number but 0
TruthyLimit(v) == v.kind \in {"str", "bad"} \/ (v.kind = "num" /\ v.n # 0)

\* line 74: event_body.get('completed_limit') or event_body.get('completedLimit')
LimitRaw(event_body) ==
    IF TruthyLimit(event_body.completed_limit)
    THEN event_body.completed_limit ELSE event_body.completedLimit

\* lines 72-79: the default, replaced by int(limit_raw) when limit_raw is not
\* None and int() does not raise
CompletedLimit(event_body) ==
    LET limit_raw == LimitRaw(event_body)
    IN  IF limit_raw.kind \in {"none", "bad"} THEN DEFAULT_COMPLETED_LIMIT
        ELSE limit_raw.n

\* timestamps a client can give create_inspection as completedAt
\* (create_inspection.py:134 stores the value as it comes): one in UTC, for
\* an instant between those of NowIso(1) and NowIso(2), and one that is no
\* ISO timestamp.  NowIso(n) stands for a string of _now_local_iso(), such
\* as 2026-01-07T09:00:00+08:00.
UtcStamp == "2026-01-07T01:30:00Z"
BadStamp == "yesterday"

\* the timestamp strings in ascending byte order, the order of the index
ByteOrder == <<UtcStamp>> \o [n \in 1..MaxRows |-> NowIso(n)] \o <<BadStamp>>

\* position of a timestamp in the order of the timestamp strings
TsRank(ts) == CHOOSE n \in 1..Len(ByteOrder) : ByteOrder[n] = ts

\* the sparse index status-completedAt-index: the rows with status
\* 'completed' that have a completedAt string
Indexed(table) ==
    {i \in DOMAIN table :
        table[i].status = "completed" /\ table[i].completedAt \notin {Absent, Null}}

\* ScanIndexForward = False: the ids by descending completedAt
RECURSIVE Descending(_, _)
Descending(table, ids) ==
    IF ids = {} THEN <<>>
    ELSE LET m == CHOOSE i \in ids :
                    \A j \in ids :
                        TsRank(table[j].completedAt) <= TsRank(table[i].completedAt)
         IN  <<m>> \o Descending(table, ids \ {m})

\* lines 88-112 and 138: the query of the index, all its pages, cut at a
\* positive limit; no query at limit 0
QueryCompleted(table, completed_limit) ==
    LET all == Descending(table, Indexed(table))
    IN  IF completed_limit = 0 THEN <<>>
        ELSE IF completed_limit > 0 /\ completed_limit < Len(all)
        THEN SubSeq(all, 1, completed_limit)
        ELSE all

RECURSIVE ScanOrder(_)
ScanOrder(ids) ==
    IF ids = {} THEN <<>>
    ELSE LET m == CHOOSE i \in ids : TRUE IN <<m>> \o ScanOrder(ids \ {m})

\* lines 143-160: the scan with attribute_not_exists(status) OR status <> completed
ScanOngoing(table) ==
    ScanOrder({i \in DOMAIN table :
                  table[i].status = Absent \/ table[i].status # "completed"})

\* lines 169-191
normalize_item(it) ==
    [inspection_id |-> it.inspectionId,
     status |-> Lower(Or2(Get(it.status), "in-progress")),
     completedAt |-> Or2(Get(it.completedAt), Absent)]

\* lines 70-202, the index being available
handle_list_inspections(table, event_body) ==
    LET completed_items == QueryCompleted(table, CompletedLimit(event_body))
        ongoing_items == ScanOngoing(table)
    IN  [completed |-> [n \in 1..Len(completed_items) |->
                            normalize_item(table[completed_items[n]])],
         ongoing |-> [n \in 1..Len(ongoing_items) |->
                            normalize_item(table[ongoing_items[n]])]]

\* a row of the table: the attributes the listing reads
ListRow(i, st, at) ==
    [inspectionId |-> "inspection_" \o ToString(i), status |-> st, completedAt |-> at]

\* the completedAt of row i when it is completed: neighbours swapped, so the
\* order of completion is not the order of the ids
CompletedAtOf(i) ==
    NowIso(IF i % 2 = 0 THEN i - 1 ELSE IF i < MaxRows THEN i + 1 ELSE i)

\* the rows a save leaves: in progress, completed with completedAt, without
\* a status (saves with items alone), and completed with completedAt
\* removed again (the removal of handler.py:231 by an overlapping save)
RowShapes(i) ==
    { ListRow(i, "in-progress", Absent),
      ListRow(i, "completed", CompletedAtOf(i)),
      ListRow(i, Absent, Absent),
      ListRow(i, "completed", Absent) }

ListTables ==
    [1..MaxRows -> {"in-progress", "completed"}]

TableOf(f) ==
    [i \in DOMAIN f |->
        IF f[i] = "completed" THEN ListRow(i, "completed", CompletedAtOf(i))
        ELSE ListRow(i, "in-progress", Absent)]

\* every table of MaxRows rows, each in progress or completed, and the
\* tables of two rows of every shape
MetadataTables ==
    {TableOf(f) : f \in ListTables}
    \cup {[i \in 1..2 |-> IF i = 1 THEN a ELSE b] : a \in RowShapes(1), b \in RowShapes(2)}

LimitValues == {NoLimit, Num(0), Str(0), Num(2), Str(2), Num(-1), BadLimit}

ListRequests ==
    [completed_limit : LimitValues, completedLimit : {NoLimit, Num(0), Str(0), Num(2), Num(-1)}]

NoListing == [completed |-> <<>>, ongoing |-> <<>>]

InitList ==
    /\ meta = NoItem
    /\ items = <<>>
    /\ venues = VenueTable
    /\ faultsLeft = 0
    /\ clock = 1
    /\ calls = 0
    /\ creates = 0
    /\ pc = [p \in Slots |-> "idle"]
    /\ body = [p \in Slots |-> NoBody]
    /\ now = [p \in Slots |-> Absent]
    /\ idx = [p \in Slots |-> 1]
    /\ written = [p \in Slots |-> 0]
    /\ existing = [p \in Slots |-> NoItem]
    /\ summary = [p \in Slots |-> NoSummary]
    /\ hasNull = [p \in Slots |-> FALSE]
    /\ skAttr = [p \in Slots |-> FALSE]
    /\ completeness = [p \in Slots |-> NoCompleteness]
    /\ resp = [p \in Slots |-> NoResp]
    /\ everLocked = FALSE
    /\ solo = [p \in Slots |-> TRUE]
    /\ refused = FALSE
    /\ passed = [p \in Slots |-> FALSE]
    /\ check \in [table : MetadataTables, event_body : ListRequests,
                  done : {FALSE}, response : {NoListing}]

\* lambda_function.py: action 'list_inspections', one invocation
ListInspections ==
    /\ ~check.done
    /\ check' = [check EXCEPT
                    !.done = TRUE,
                    !.response = handle_list_inspections(check.table, check.event_body)]
    /\ UNCHANGED <<meta, items, venues, faultsLeft, clock, calls, creates, pc, Locals,
                   resp, everLocked, History>>

NextList == ListInspections

SpecList == InitList /\ [][NextList]_vars

\* the limit a request asks for: the value given under completed_limit, else
\* the one under completedLimit, as a number; the default without a usable
\* value
Requested(event_body) ==
    LET v == IF event_body.completed_limit.kind # "none"
             THEN event_body.completed_limit ELSE event_body.completedLimit
    IN  IF v.kind \in {"none", "bad"} THEN DEFAULT_COMPLETED_LIMIT ELSE v.n

CompletedIds(table) == {i \in DOMAIN table : table[i].status = "completed"}

\* every completed row has its completedAt
AllDated(table) == \A i \in CompletedIds(table) : table[i].completedAt # Absent

\* the sequence lists n rows of the table: completed ones, in descending
\* completedAt order, none of the rows left out being later than a listed one
TopCompleted(listed, table, n) ==
    LET At(id) == LET i == CHOOSE j \in DOMAIN table : table[j].inspectionId = id
                  IN  TsRank(table[i].completedAt)
        ids == {listed[k].inspection_id : k \in 1..Len(listed)}
    IN  /\ Len(listed) = n
        /\ Cardinality(ids) = n
        /\ \A k \in 1..Len(listed) :
              /\ listed[k].status = "completed"
              /\ listed[k].inspection_id \in
                    {table[i].inspectionId : i \in CompletedIds(table)}
        /\ \A k \in 1..(Len(listed) - 1) :
              At(listed[k].inspection_id) >= At(listed[k + 1].inspection_id)
        /\ \A i \in CompletedIds(table) :
              table[i].inspectionId \notin ids =>
                  \A k \in 1..Len(listed) :
                      At(listed[k].inspection_id) >= TsRank(table[i].completedAt)

\* the number of rows a limit n lets through, of c completed ones
Allowed(n, c) == IF n < 0 \/ n > c THEN c ELSE n

\* C26: list_inspections returns in completed the N completed inspections
\* with the greatest completedAt, in descending completedAt order, N being
\* the requested limit: 6 without one, none at limit 0 (number or string,
\* under either key), all at a negative limit.
C26_TopNCompleted ==
    (check.done /\ AllDated(check.table)) =>
        TopCompleted(check.response.completed, check.table,
                     Allowed(Requested(check.event_body),
                             Cardinality(CompletedIds(check.table))))

\* what does hold: the same for every request but those that give the
\* number 0 under completed_limit
TopNCompletedUnlessNumberZero ==
    (check.done /\ AllDated(check.table)
        /\ check.event_body.completed_limit # Num(0)) =>
        TopCompleted(check.response.completed, check.table,
                     Allowed(Requested(check.event_body),
                             Cardinality(CompletedIds(check.table))))

\* the row with that id is in the sequence
Lists(seq, id) == \E k \in 1..Len(seq) : seq[k].inspection_id = id

\* C27: with a negative limit, list_inspections returns every row of the
\* metadata table in exactly one of the two sequences: in completed when
\* its status is completed, in ongoing otherwise.
C27_ListPartitions ==
    (check.done /\ Requested(check.event_body) < 0) =>
        \A i \in DOMAIN check.table :
            LET id == check.table[i].inspectionId
            IN  /\ Lists(check.response.completed, id)
                      <=> check.table[i].status = "completed"
                /\ Lists(check.response.ongoing, id)
                      <=> check.table[i].status # "completed"

\* what does hold: the same for tables whose completed rows all have their
\* completedAt
ListPartitionsWhenDated ==
    (check.done /\ Requested(check.event_body) < 0 /\ AllDated(check.table)) =>
        \A i \in DOMAIN check.table :
            LET id == check.table[i].inspectionId
            IN  /\ Lists(check.response.completed, id)
                      <=> check.table[i].status = "completed"
                /\ Lists(check.response.ongoing, id)
                      <=> check.table[i].status # "completed"

\* a state two overlapping saves reach in the two-room specification: the
\* row has status completed and its completedAt has been removed again
UndatedCompletedRow ==
    Quiescent /\ StatusCompleted(meta) /\ meta.completedAt = Absent

\* the name of the inspector a request gives
Inspector(ins) ==
    Or2(Or2(Get(ins.updatedBy), Get(ins.createdBy)), Get(ins.inspectorName))

\* C28: the metadata update of a save with items carries updatedAt = the
\* action timestamp of the call and updatedBy = the name of the inspector
\* given in the request, which the test gives as inspectorName alone.
C28_UpdateCarriesInspector ==
    [][\A p \in Slots :
          (pc[p] = "meta_update" /\ Acts(p)) =>
              /\ meta'.updatedAt = now[p]
              /\ meta'.updatedBy = Inspector(body[p])]_vars

\* what does hold: updatedAt is the action timestamp, and updatedBy is the
\* request's updatedBy or else its createdBy, None when it gives neither
UpdateCarriesTimestamp ==
    [][\A p \in Slots :
          (pc[p] = "meta_update" /\ Acts(p)) =>
              /\ meta'.updatedAt = now[p]
              /\ Truthy(now[p])
              /\ meta'.updatedBy = Or2(Get(body[p].updatedBy), Get(body[p].createdBy))]_vars

\* p's step is an item write: the row at key k is new or changed
Writes(p, k) ==
    /\ pc[p] = "items" /\ Acts(p)
    /\ k \in DOMAIN items'
    /\ (k \notin DOMAIN items \/ items'[k] # items[k])

\* C29: every item row one save writes carries the same updatedAt, the
\* timestamp the call took at its start, and the metadata update of the same
\* call writes that value as the row's updatedAt.  The call's timestamp does
\* not change while the call runs.
C29_OneTimestampPerSave ==
    [][\A p \in Slots :
          /\ \A k \in DOMAIN items' :
                Writes(p, k) => (items'[k].updatedAt = now[p] /\ Truthy(now[p]))
          /\ (pc[p] \in {"meta_update", "complete_write"} /\ Acts(p)) =>
                meta'.updatedAt = now[p]
          /\ (InFlight(p) /\ InFlight(p)') => now'[p] = now[p]]_vars

\* C29 witness: a first save of two items has returned; both rows and the
\* metadata row carry the timestamp of the call.
C29_Witness ==
    /\ calls = 1 /\ Quiescent /\ resp[1].code = 200 /\ resp[1].written = 2
    /\ DOMAIN items = {"R1#i1", "R1#i2"}
    /\ items["R1#i1"].updatedAt = "t1"
    /\ items["R1#i2"].updatedAt = "t1"
    /\ meta.updatedAt = "t1"

\* the (roomId, itemId) pairs of a request's batch
BatchPairs(ins) ==
    {<<Get(ins.roomId), Get(ins.items[k].itemId)>> : k \in 1..Len(ins.items)}

\* p's step writes item n of its batch
WritesItem(p, n) == pc[p] = "items" /\ idx[p] = n /\ idx'[p] = n + 1

\* row k holds item n of the request as submitted
HoldsItem(store, k, ins, n) ==
    /\ k \in DOMAIN store
    /\ store[k].roomId = Get(ins.roomId)
    /\ store[k].itemId = ins.items[n].itemId
    /\ store[k].status = Get(ins.items[n].status)

\* C30: for two overlapping saves of one inspection that both write their
\* batches, of disjoint (roomId, itemId) pairs, the item rows hold every item
\* of both batches with the status submitted, in every interleaving:
\*  - an item write stores the item under its own key with the status
\*    submitted;
\*  - no step removes a row, and a row changes only in an item write of the
\*    same (roomId, itemId);
\*  - while both calls run, every item either has written so far is in its
\*    row as submitted;
\*  - after two saves of unequal batch sizes (which are disjoint batches in
\*    this specification) have returned, there is one row per item written.
C30_DisjointWritesKept ==
    /\ [][/\ \A p \in Slots : \A n \in 1..Len(body[p].items) :
               WritesItem(p, n) =>
                   HoldsItem(items', SortKey(Get(body[p].roomId), body[p].items[n].itemId),
                             body[p], n)
          /\ \A k \in DOMAIN items :
               /\ k \in DOMAIN items'
               /\ items'[k] # items[k] =>
                     \E p \in Slots : \E n \in 1..Len(body[p].items) :
                         /\ WritesItem(p, n)
                         /\ <<items[k].roomId, items[k].itemId>> =
                                <<Get(body[p].roomId), body[p].items[n].itemId>>]_vars
    /\ [](\A p, q \in Slots :
            (p # q /\ calls = 2 /\ InFlight(p) /\ InFlight(q)
                /\ BatchPairs(body[p]) \cap BatchPairs(body[q]) = {}) =>
                \A n \in 1..Len(body[p].items) :
                    (n < idx[p] \/ pc[p] \notin {"items", "describe"}) =>
                        HoldsItem(items, SortKey(Get(body[p].roomId), body[p].items[n].itemId),
                                  body[p], n))
    /\ []((calls = 2 /\ Quiescent /\ ~solo[1]
             /\ resp[1].code = 200 /\ resp[2].code = 200
             /\ resp[1].written # resp[2].written) =>
             Cardinality(DOMAIN items) = resp[1].written + resp[2].written)

\* C30 witness: the save of room R1 (two items) and the save of room R2 (one
\* item) have overlapped and both returned; the three rows hold the
\* statuses submitted.
C30_Witness ==
    /\ calls = 2 /\ Quiescent /\ ~solo[1] /\ ~solo[2]
    /\ resp[1].code = 200 /\ resp[2].code = 200
    /\ resp[1].written + resp[2].written = 3
    /\ DOMAIN items = {"R1#i1", "R1#i2", "R2#i3"}
    /\ items["R1#i1"].status = "pass"
    /\ items["R1#i2"].status = "PASS"
    /\ items["R2#i3"].status = "fail"

-----------------------------------------------------------------------------
(* delete_inspection (delete_inspection.py) and the delete specification:     *)
(* the handler applied to bounded contents of the InspectionImages table, the *)
(* bucket, the InspectionData table and the tables of save_inspection         *)

\* sort keys of InspectionImages rows; the s3Key of a row is modelled by the
\* same string
ImageKeys == {"R1#i1#img1", "R2#i3#img2"}

\* the store call of one invocation that fails: none, the image query, the
\* delete_objects batch, the delete_item of one image row, or the delete_item
\* on InspectionData
DeleteFaults == {"none", "query", "s3", "data"} \cup ImageKeys

NoDeleteResponse ==
    [code |-> 0, message |-> Absent, deletedImages |-> 0, imageFailures |-> {},
     inspectionDeleted |-> FALSE]

\* lines 33-44: the rows of the inspection, [] when the query raises
QueryImages(images, f) == IF f = "query" THEN {} ELSE images

\* lines 47-64: the keys delete_objects reports deleted; none when it raises
BatchDeleted(keys, f) == IF f = "s3" THEN {} ELSE keys

\* lines 67-73 and 127-130: the image rows whose delete_item succeeds
RowsDeleted(keys, f) == keys \ {f}

\* lines 76-145: the tables after the call and its response.  d holds the
\* request (inspection_id, cascade) and the tables the handler has a handle
\* on: images, s3 and data (the row of the id in InspectionData).
delete_inspection(d, f) ==
    LET found == QueryImages(d.images, f)
        gone == IF d.cascade THEN BatchDeleted(found, f) ELSE {}
        rows == IF d.cascade THEN RowsDeleted(found, f) ELSE {}
        failures == IF d.cascade
                    THEN {[key |-> k, reason |-> "s3"] : k \in found \ gone}
                         \cup {[key |-> k, reason |-> "db-delete-failed"] :
                                 k \in found \ rows}
                    ELSE {}
    IN  IF ~Truthy(Get(d.inspection_id))
        THEN [d EXCEPT !.done = TRUE,
                       !.response = [NoDeleteResponse EXCEPT
                            !.code = 400, !.message = "inspection_id is required"]]
        ELSE [d EXCEPT
                !.done = TRUE,
                !.s3 = @ \ gone,
                !.images = @ \ rows,
                !.data = IF f = "data" THEN @ ELSE FALSE,
                !.response =
                    [code |-> IF f = "data" THEN 500 ELSE 200,
                     message |-> IF f = "data"
                                 THEN "Failed to delete inspection record"
                                 ELSE "Deleted",
                     deletedImages |-> Cardinality(gone),
                     imageFailures |-> failures,
                     inspectionDeleted |-> f # "data"]]

\* the store call f is one the invocation makes
FaultApplies(d, f) ==
    CASE f = "none" -> TRUE
      [] f = "query" -> Truthy(Get(d.inspection_id)) /\ d.cascade
      [] f = "s3" -> Truthy(Get(d.inspection_id)) /\ d.cascade /\ d.images # {}
      [] f = "data" -> Truthy(Get(d.inspection_id))
      [] OTHER -> Truthy(Get(d.inspection_id)) /\ d.cascade /\ f \in d.images

\* a metadata row as a first metadata-only save leaves it, and the row after
\* the completing save
SavedRow == InspDataItem(Body(<<>>, Absent, "V1", "Hall A", Absent, "ann"), NoItem, "t1")
CompletedRow ==
    CompleteRow(SavedRow,
                Body(<<It("i3", "pass")>>, "R2", "V1", Absent, Absent, "bob"), "t3")

DeleteMetas == {NoItem, SavedRow, CompletedRow}

\* item rows of the inspection: none, one, every expected item of V1
DeleteStores ==
    { <<>>,
      StoreOf({<<"R1", "i1">>}, [pr \in {<<"R1", "i1">>} |-> "fail"]),
      StoreOf(PurePairs \ {<<Null, "i1">>},
              [pr \in PurePairs \ {<<Null, "i1">>} |-> "pass"]) }

DeleteRequests ==
    { [inspection_id |-> i, cascade |-> c, images |-> im, s3 |-> im, data |-> dt,
       done |-> FALSE, response |-> NoDeleteResponse] :
        i \in {InspectionId, Absent}, c \in BOOLEAN, im \in SUBSET ImageKeys,
        dt \in BOOLEAN }

InitDelete ==
    /\ meta \in DeleteMetas
    /\ items \in DeleteStores
    /\ venues = VenueTable
    /\ faultsLeft \in {0, 1}
    /\ clock = 1
    /\ calls = 0
    /\ creates = 0
    /\ pc = [p \in Slots |-> "idle"]
    /\ body = [p \in Slots |-> NoBody]
    /\ now = [p \in Slots |-> Absent]
    /\ idx = [p \in Slots |-> 1]
    /\ written = [p \in Slots |-> 0]
    /\ existing = [p \in Slots |-> NoItem]
    /\ summary = [p \in Slots |-> NoSummary]
    /\ hasNull = [p \in Slots |-> FALSE]
    /\ skAttr = [p \in Slots |-> FALSE]
    /\ completeness = [p \in Slots |-> NoCompleteness]
    /\ resp = [p \in Slots |-> NoResp]
    /\ everLocked = FALSE
    /\ solo = [p \in Slots |-> TRUE]
    /\ refused = FALSE
    /\ passed = [p \in Slots |-> FALSE]
    /\ check \in DeleteRequests

\* one invocation of the delete lambda.  No call of it names the
\* InspectionMetadata or the InspectionItems table.
DeleteInspection ==
    /\ ~check.done
    /\ \E f \in DeleteFaults :
        /\ FaultApplies(check, f)
        /\ f # "none" => faultsLeft > 0
        /\ faultsLeft' = IF f # "none" THEN faultsLeft - 1 ELSE faultsLeft
        /\ check' = delete_inspection(check, f)
    /\ UNCHANGED <<meta, items, venues, clock, calls, creates, pc, Locals, resp,
                   everLocked, History>>

NextDelete == DeleteInspection

SpecDelete == InitDelete /\ [][NextDelete]_vars

\* C31: after a delete with cascade has answered 200 with inspectionDeleted
\* true, the inspection has no metadata row and no item row.
C31_DeleteCascades ==
    (check.done /\ check.cascade /\ check.response.code = 200
        /\ check.response.inspectionDeleted) =>
        (~Exists(meta) /\ DOMAIN items = {})

\* what does hold: such a delete leaves no InspectionData row of the id, and
\* without a failed call no image row nor object of the inspection; the
\* metadata row and the item rows are as they were
DeleteRemovesDataRow ==
    [][(check'.done /\ ~check.done) =>
          /\ UNCHANGED <<meta, items>>
          /\ (check'.cascade /\ check'.response.code = 200) =>
                /\ check'.response.inspectionDeleted
                /\ ~check'.data
                /\ faultsLeft' = faultsLeft =>
                      (check'.images = {} /\ check'.s3 = {}
                          /\ check'.response.deletedImages = Cardinality(check.images))]_vars

-----------------------------------------------------------------------------
(* Further properties of the concurrent specification *)

\* the author a request names for a record it creates
Creator(ins) == Or2(Or2(Get(ins.createdBy), Get(ins.updatedBy)), "Unknown")

\* p's step returns a 200 response
Returns200(p) == InFlight(p) /\ pc'[p] = "done" /\ resp'[p].code = 200

\* C32: across save_inspection calls that follow one another (metadata-only
\* or with items), the step that creates the metadata row sets createdAt to
\* the call's timestamp and createdBy to its author, no later step changes
\* either, and when a call returns success updatedAt is its timestamp.
C32_CreatedFieldsSetOnce ==
    [][\A p \in Slots :
          (Acts(p) /\ solo[p] /\ creates = 0) =>
              /\ Exists(meta) =>
                    /\ meta'.createdAt = meta.createdAt
                    /\ meta'.createdBy = meta.createdBy
              /\ (~Exists(meta) /\ Exists(meta')) =>
                    /\ meta'.createdAt = now[p]
                    /\ meta'.createdBy = Creator(body[p])
              /\ Returns200(p) => meta'.updatedAt = now[p]]_vars

\* what does hold: in such calls a createdAt or createdBy that is set is
\* never changed, a metadata-only save that finds no row sets both, and
\* updatedAt is the timestamp of the call that returns success
CreatedFieldsKeptOnceSet ==
    [][\A p \in Slots :
          (Acts(p) /\ solo[p] /\ creates = 0) =>
              /\ Truthy(Get(meta.createdAt)) => meta'.createdAt = meta.createdAt
              /\ Truthy(Get(meta.createdBy)) => meta'.createdBy = meta.createdBy
              /\ (~Exists(meta) /\ Exists(meta') /\ Len(body[p].items) = 0) =>
                    /\ meta'.createdAt = now[p]
                    /\ meta'.createdBy = Creator(body[p])
              /\ Returns200(p) => meta'.updatedAt = now[p]]_vars

-----------------------------------------------------------------------------
(* The key specification: save_inspection calls whose room and item ids      *)
(* hold the separator of the composite sort key, or that give no roomId,     *)
(* over a store that does not fail                                           *)

MaxKeyCalls == 2     \* save_inspection invocations in one behaviour

\* no id of a request is validated (handler.py:8-9 and 81 take them as they
\* come): item b#c of room a and item c of room a#b; item i1 without a
\* roomId and item i1 of a room named None; two items of room R1.  No request
\* gives a venue id, so no save locks the inspection.
KeyBodies ==
    { Body(<<It("b#c", "pass")>>, "a", Absent, Absent, Absent, "ann"),
      Body(<<It("c", "fail")>>, "a#b", Absent, Absent, Absent, "bob"),
      Body(<<It("i1", "pass")>>, Absent, Absent, Absent, Absent, "ann"),
      Body(<<It("i1", "fail")>>, "None", Absent, Absent, Absent, "bob"),
      Body(<<It("i1", "pass"), It("i2", "fail")>>, "R1", Absent, Absent, Absent, "ann") }

InitKeys ==
    /\ meta = NoItem
    /\ items = <<>>
    /\ venues = VenueTable
    /\ faultsLeft = 0
    /\ clock = 1
    /\ calls = 0
    /\ creates = 0
    /\ pc = [p \in Slots |-> "idle"]
    /\ body = [p \in Slots |-> NoBody]
    /\ now = [p \in Slots |-> Absent]
    /\ idx = [p \in Slots |-> 1]
    /\ written = [p \in Slots |-> 0]
    /\ existing = [p \in Slots |-> NoItem]
    /\ summary = [p \in Slots |-> NoSummary]
    /\ hasNull = [p \in Slots |-> FALSE]
    /\ skAttr = [p \in Slots |-> FALSE]
    /\ completeness = [p \in Slots |-> NoCompleteness]
    /\ resp = [p \in Slots |-> NoResp]
    /\ everLocked = FALSE
    /\ solo = [p \in Slots |-> TRUE]
    /\ refused = FALSE
    /\ passed = [p \in Slots |-> FALSE]
    /\ check = NoCheck

GuardKeys(p) == calls < MaxKeyCalls /\ Guard(p, KeyBodies)

NextKeys ==
    \/ \E p \in Slots : GuardKeys(p)
    \/ \E p \in Slots : DescribeTable(p)
    \/ \E p \in Slots : ItemStep(p)
    \/ \E p \in Slots : Summarize(p)
    \/ \E p \in Slots : Cache(p)
    \/ \E p \in Slots : MetaRead2(p)
    \/ \E p \in Slots : MetaUpdate(p)
    \/ \E p \in Slots : CompleteCheck(p)
    \/ \E p \in Slots : Final(p)

SpecKeys == InitKeys /\ [][NextKeys]_vars

\* C33: two different (roomId, itemId) pairs never share an item row: the
\* write of one item leaves the row of every other pair as it is, and every
\* row sits at the key of its own pair alone.
C33_KeyInjective ==
    [][\A p \in Slots : \A n \in 1..Len(body[p].items) :
          WritesItem(p, n) =>
              \A k \in DOMAIN items :
                  <<items[k].roomId, items[k].itemId>>
                        # <<Get(body[p].roomId), body[p].items[n].itemId>>
                    => (k \in DOMAIN items' /\ items'[k] = items[k])]_vars

\* what does hold: the same for ids without the separator in requests that
\* give a roomId
KeyInjectiveForPlainIds ==
    [][\A p \in Slots : \A n \in 1..Len(body[p].items) :
          (WritesItem(p, n) /\ body[p].roomId = "R1") =>
              \A k \in DOMAIN items :
                  (items[k].roomId = "R1"
                     /\ items[k].itemId # body[p].items[n].itemId)
                    => (k \in DOMAIN items' /\ items'[k] = items[k])]_vars

-----------------------------------------------------------------------------
(* The batch specification: save_inspection calls for the one-room venue     *)
(* whose batches hold an item outside the venue's rooms, an item without id, *)
(* or one item twice, over a store that does not fail                        *)

MaxBatchCalls == 2   \* save_inspection invocations in one behaviour

\* the full all-pass batch; a batch with a failing expected item; the full
\* batch with a failing item x9 the venue does not list; the full batch with
\* a failing item that has no id; a batch that gives i1 as fail and then as
\* pass
BatchBodies ==
    { Body(<<It("i1", "pass"), It("i2", "PASS")>>, "R1", "V1", Absent, Absent, "ann"),
      Body(<<It("i1", "pass"), It("i2", "fail")>>, "R1", "V1", Absent, Absent, "bob"),
      Body(<<It("i1", "pass"), It("i2", "pass"), It("x9", "fail")>>, "R1", "V1",
           Absent, Absent, "ann"),
      Body(<<It("i1", "pass"), It("i2", "pass"), It(Absent, "fail")>>, "R1", "V1",
           Absent, Absent, "bob"),
      Body(<<It("i1", "fail"), It("i1", "pass"), It("i2", "pass")>>, "R1", "V1",
           Absent, Absent, "ann") }

InitBatch ==
    /\ meta = NoItem
    /\ items = <<>>
    /\ venues = OneRoomTable
    /\ faultsLeft = 0
    /\ clock = 1
    /\ calls = 0
    /\ creates = 0
    /\ pc = [p \in Slots |-> "idle"]
    /\ body = [p \in Slots |-> NoBody]
    /\ now = [p \in Slots |-> Absent]
    /\ idx = [p \in Slots |-> 1]
    /\ written = [p \in Slots |-> 0]
    /\ existing = [p \in Slots |-> NoItem]
    /\ summary = [p \in Slots |-> NoSummary]
    /\ hasNull = [p \in Slots |-> FALSE]
    /\ skAttr = [p \in Slots |-> FALSE]
    /\ completeness = [p \in Slots |-> NoCompleteness]
    /\ resp = [p \in Slots |-> NoResp]
    /\ everLocked = FALSE
    /\ solo = [p \in Slots |-> TRUE]
    /\ refused = FALSE
    /\ passed = [p \in Slots |-> FALSE]
    /\ check = NoCheck

GuardBatch(p) == calls < MaxBatchCalls /\ Guard(p, BatchBodies)

NextBatch ==
    \/ \E p \in Slots : GuardBatch(p)
    \/ \E p \in Slots : DescribeTable(p)
    \/ \E p \in Slots : ItemStep(p)
    \/ \E p \in Slots : Summarize(p)
    \/ \E p \in Slots : Cache(p)
    \/ \E p \in Slots : MetaRead2(p)
    \/ \E p \in Slots : MetaUpdate(p)
    \/ \E p \in Slots : CompleteCheck(p)
    \/ \E p \in Slots : CompleteWrite(p)
    \/ \E p \in Slots : Final(p)

SpecBatch == InitBatch /\ [][NextBatch]_vars

\* p's step is the completeness evaluation of a save that takes the
\* short-circuit of line 245
ShortCircuits(p) ==
    /\ pc[p] = "complete" /\ Acts(p)
    /\ Truthy(Get(body[p].venueId))
    /\ ProvidedNonPass(body[p].items)

\* C34: whenever a save skips the completeness evaluation because an item of
\* its batch has a non-pass status, check_inspection_complete on the item rows
\* of that moment returns complete = FALSE, whatever the batch holds.
C34_ShortCircuitSound ==
    [][\A p \in Slots :
          ShortCircuits(p) =>
              ~check_inspection_complete(items, venues, body[p].venueId).complete]_vars

\* the batch gives an expected item of the venue with a non-pass status and
\* does not give the same item again further on
LastWordNonPass(ins, table) ==
    \E k \in NonPassExpected(ins, table) :
        \A j \in (k + 1)..Len(ins.items) : ins.items[j].itemId # ins.items[k].itemId

\* what does hold: the short-circuit agrees with the evaluation when the
\* non-pass status is the batch's last word on an expected item and no other
\* call overlaps the save
ShortCircuitSoundForExpected ==
    [][\A p \in Slots :
          (ShortCircuits(p) /\ solo[p] /\ LastWordNonPass(body[p], venues)) =>
              ~check_inspection_complete(items, venues, body[p].venueId).complete]_vars

\* the step changes the cached totals or byRoom of the metadata row
CacheChanges == meta'.totals # meta.totals \/ meta'.byRoom # meta.byRoom

\* C35: among the steps of save_inspection calls, only the cache write of a
\* save with items changes the cached totals and byRoom of the metadata row;
\* a metadata-only save leaves both exactly as they were.
C35_CacheChangedByRefreshOnly ==
    [][creates' = creates =>
          /\ CacheChanges => \E p \in Slots : pc[p] = "cache" /\ Acts(p)
          /\ \A p \in Slots :
                (Acts(p) /\ Len(body[p].items) = 0) => ~CacheChanges]_vars

\* what does hold: among the steps of saves with items, only the cache write
\* changes totals and byRoom
CacheKeptBySavesWithItems ==
    [][\A p \in Slots :
          (Acts(p) /\ Len(body[p].items) > 0 /\ CacheChanges) => pc[p] = "cache"]_vars

-----------------------------------------------------------------------------
(* The metadata-fault specification: save_inspection calls for the one-room  *)
(* venue over an InspectionMetadata table whose calls can fail: the get_item *)
(* of the guard read and the update_item of the completion write, besides    *)
(* the failures of the request specification                                 *)

MaxFaultCalls == 2   \* save_inspection invocations in one behaviour

\* the full all-pass batch, a failing item, and a metadata-only save
FaultBodies ==
    { Body(<<It("i1", "pass"), It("i2", "PASS")>>, "R1", "V1", Absent, Absent, "ann"),
      Body(<<It("i2", "fail")>>, "R1", "V1", Absent, Absent, "bob"),
      Body(<<>>, Absent, "V1", "Hall A", Absent, "ann") }

InitFaults ==
    /\ meta = NoItem
    /\ items = <<>>
    /\ venues = OneRoomTable
    /\ faultsLeft = MaxFaults
    /\ clock = 1
    /\ calls = 0
    /\ creates = 0
    /\ pc = [p \in Slots |-> "idle"]
    /\ body = [p \in Slots |-> NoBody]
    /\ now = [p \in Slots |-> Absent]
    /\ idx = [p \in Slots |-> 1]
    /\ written = [p \in Slots |-> 0]
    /\ existing = [p \in Slots |-> NoItem]
    /\ summary = [p \in Slots |-> NoSummary]
    /\ hasNull = [p \in Slots |-> FALSE]
    /\ skAttr = [p \in Slots |-> FALSE]
    /\ completeness = [p \in Slots |-> NoCompleteness]
    /\ resp = [p \in Slots |-> NoResp]
    /\ everLocked = FALSE
    /\ solo = [p \in Slots |-> TRUE]
    /\ refused = FALSE
    /\ passed = [p \in Slots |-> FALSE]
    /\ check = NoCheck

GuardFaults(p) == calls < MaxFaultCalls /\ Guard(p, FaultBodies)

GuardReadFault(p) == calls < MaxFaultCalls /\ GuardFault(p, FaultBodies)

NextFaults ==
    \/ \E p \in Slots : GuardFaults(p)
    \/ \E p \in Slots : GuardReadFault(p)
    \/ \E p \in Slots : MetaRead(p)
    \/ \E p \in Slots : MetaPut(p)
    \/ \E p \in Slots : MetaReturn(p)
    \/ \E p \in Slots : DescribeTable(p)
    \/ \E p \in Slots : ItemStep(p)
    \/ \E p \in Slots : Summarize(p)
    \/ \E p \in Slots : Cache(p)
    \/ \E p \in Slots : MetaRead2(p)
    \/ \E p \in Slots : MetaUpdate(p)
    \/ \E p \in Slots : CompleteCheck(p)
    \/ \E p \in Slots : CompleteWrite(p)
    \/ \E p \in Slots : CompleteWriteFault(p)
    \/ \E p \in Slots : Final(p)

SpecFaults == InitFaults /\ [][NextFaults]_vars

\* C36: a save_inspection call that starts while the metadata row is locked
\* (status completed, or a completedAt value) is ended at its guard, with no
\* item write and no metadata write, also when the read of the guard fails:
\* a failed read is not taken for an unlocked inspection.
C36_ReadFaultKeepsLock ==
    [][\A p \in Slots :
          (Starts(p) /\ Locked(meta) /\ ~NoId(body'[p])) =>
              /\ pc'[p] = "done"
              /\ resp'[p].code # 200
              /\ UNCHANGED <<meta, items>>]_vars

\* what does hold: such a call is answered 403 when the read of its guard
\* succeeds
LockHoldsWhenReadSucceeds ==
    [][\A p \in Slots :
          (Starts(p) /\ Locked(meta) /\ ~NoId(body'[p])
                     /\ faultsLeft' = faultsLeft) =>
              /\ pc'[p] = "done"
              /\ resp'[p].code = 403
              /\ UNCHANGED <<meta, items>>]_vars

\* C37: whenever the response of a save says complete.complete = TRUE, the
\* metadata row, and the inspectionData of that response, has status
\* completed and a completedAt value, also when the update_item of the
\* completion write fails.
C37_CompleteMeansCompleted ==
    [][\A p \in Slots :
          (ReturnsSaved(p) /\ ~resp'[p].complete.isNone
                           /\ resp'[p].complete.complete) =>
              /\ SaysComplete(resp'[p], meta')
              /\ StatusCompleted(resp'[p].inspectionData)
              /\ Truthy(Get(resp'[p].inspectionData.completedAt))]_vars

\* what does hold: the same for a call that no other call overlaps, when no
\* store call has failed
CompleteRecordedWithoutFault ==
    [][\A p \in Slots :
          (ReturnsSaved(p) /\ solo[p] /\ NoFaultYet
                           /\ ~resp'[p].complete.isNone
                           /\ resp'[p].complete.complete) =>
              /\ SaysComplete(resp'[p], meta')
              /\ StatusCompleted(resp'[p].inspectionData)
              /\ Truthy(Get(resp'[p].inspectionData.completedAt))]_vars

-----------------------------------------------------------------------------
(* Further properties of the two-room specification *)

\* C38: when two save_inspection calls on the inspection, both for venue V1
\* and both with an all-pass batch, have returned 200 and every expected
\* item of V1 is pass in the item rows, the metadata row has status
\* completed, however the steps of the two calls interleaved.  (With two
\* calls made, the three expected items are all pass only when the calls were
\* the all-pass save of room R1 and the pass save of room R2.)
C38_NoCompletionLost ==
    (calls = 2 /\ Quiescent /\ resp[1].code = 200 /\ resp[2].code = 200
        /\ AllExpectedPass(items, venues, "V1")) =>
        StatusCompleted(meta)

\* C38 witness: the two saves overlapped; the one that evaluated first found
\* an item of the other room missing and answered incomplete, the other
\* answered complete, and the row is completed.
C38_Witness ==
    /\ calls = 2 /\ Quiescent /\ ~solo[1] /\ ~solo[2]
    /\ resp[1].code = 200 /\ resp[2].code = 200
    /\ AllExpectedPass(items, venues, "V1")
    /\ \E p, q \in Slots :
          /\ ~resp[p].complete.isNone /\ ~resp[p].complete.complete
          /\ Len(resp[p].complete.missing) = 1
          /\ ~resp[q].complete.isNone /\ resp[q].complete.complete
    /\ StatusCompleted(meta)

-----------------------------------------------------------------------------
(* The fallback of handle_list_inspections (list_inspections.py, lines        *)
(* 113-136) and the fallback specification: the index query and the          *)
(* scan+sort+slice that replaces it when the query raises, applied to the    *)
(* same bounded tables and requests                                          *)

FallbackRows == 3    \* rows of the InspectionMetadata table

\* lines 48-58: the instant of a timestamp string as a number, 0 for no value
\* and for a string that does not parse.  The strings of _now_local_iso()
\* parse to instants in their own order; the UTC string to an instant
\* between the first two of them.
parse_iso_to_timestamp(val) ==
    IF ~Truthy(val) \/ val = BadStamp THEN 0
    ELSE IF val = UtcStamp THEN 3
    ELSE 2 * (CHOOSE n \in 1..MaxRows : NowIso(n) = val)

\* line 134: the sort key of a row (x.get('completedAt') or ... or
\* x.get('updatedAt') or x.get('createdAt'))
SortStamp(x) ==
    parse_iso_to_timestamp(Or2(Or2(Get(x.completedAt), Get(x.updatedAt)), Get(x.createdAt)))

\* line 134: sorted(..., reverse=True), which keeps rows of equal key in the
\* order they came in
RECURSIVE SortedDescending(_, _)
SortedDescending(table, seq) ==
    IF seq = <<>> THEN <<>>
    ELSE LET K(n) == SortStamp(table[seq[n]])
             m == CHOOSE n \in 1..Len(seq) :
                     \A j \in 1..Len(seq) : K(j) < K(n) \/ (K(j) = K(n) /\ n <= j)
         IN  <<seq[m]>> \o SortedDescending(table,
                              SubSeq(seq, 1, m - 1) \o SubSeq(seq, m + 1, Len(seq)))

\* lines 116-136: the scan with the filter status = completed, all its
\* pages, sorted, and cut at a positive limit; nothing at limit 0, where
\* line 88 skips the query and its fallback
ScanCompleted(table, completed_limit) ==
    LET all == SortedDescending(table,
                   ScanOrder({i \in DOMAIN table : table[i].status = "completed"}))
    IN  IF completed_limit = 0 THEN <<>>
        ELSE IF completed_limit > 0 /\ completed_limit < Len(all)
        THEN SubSeq(all, 1, completed_limit)
        ELSE all

\* lines 70-202, the index query raising
handle_list_inspections_fallback(table, event_body) ==
    LET completed_items == ScanCompleted(table, CompletedLimit(event_body))
        ongoing_items == ScanOngoing(table)
    IN  [completed |-> [n \in 1..Len(completed_items) |->
                            normalize_item(table[completed_items[n]])],
         ongoing |-> [n \in 1..Len(ongoing_items) |->
                            normalize_item(table[ongoing_items[n]])]]

\* a row of the table with the attributes either path reads
StampedRow(i, st, at) ==
    [inspectionId |-> "inspection_" \o ToString(i), status |-> st, completedAt |-> at,
     createdAt |-> NowIso(1), updatedAt |-> NowIso(i + 4)]

\* the rows of RowShapes; for row 1, completed by create_inspection with the
\* client's UTC completedAt; for row 2, with a completedAt that is no
\* timestamp
StampedShapes(i) ==
    { StampedRow(i, "in-progress", Absent),
      StampedRow(i, "completed", CompletedAtOf(i)),
      StampedRow(i, "completed", Absent) }
    \cup (IF i = 1 THEN {StampedRow(i, "completed", UtcStamp)} ELSE {})
    \cup (IF i = 2 THEN {StampedRow(i, "completed", BadStamp)} ELSE {})

FallbackTables ==
    { [i \in 1..FallbackRows |-> IF i = 1 THEN a ELSE IF i = 2 THEN b ELSE c] :
        a \in StampedShapes(1), b \in StampedShapes(2), c \in StampedShapes(3) }

InitFallback ==
    /\ meta = NoItem
    /\ items = <<>>
    /\ venues = VenueTable
    /\ faultsLeft = 0
    /\ clock = 1
    /\ calls = 0
    /\ creates = 0
    /\ pc = [p \in Slots |-> "idle"]
    /\ body = [p \in Slots |-> NoBody]
    /\ now = [p \in Slots |-> Absent]
    /\ idx = [p \in Slots |-> 1]
    /\ written = [p \in Slots |-> 0]
    /\ existing = [p \in Slots |-> NoItem]
    /\ summary = [p \in Slots |-> NoSummary]
    /\ hasNull = [p \in Slots |-> FALSE]
    /\ skAttr = [p \in Slots |-> FALSE]
    /\ completeness = [p \in Slots |-> NoCompleteness]
    /\ resp = [p \in Slots |-> NoResp]
    /\ everLocked = FALSE
    /\ solo = [p \in Slots |-> TRUE]
    /\ refused = FALSE
    /\ passed = [p \in Slots |-> FALSE]
    /\ check \in [table : FallbackTables, event_body : ListRequests,
                  done : {FALSE}, response : {NoListing},
                  fell : {FALSE}, fallback : {NoListing}]

\* lambda_function.py: action 'list_inspections', one invocation in which
\* the query of the index raises
ListInspectionsFallback ==
    /\ ~check.fell
    /\ check' = [check EXCEPT
                    !.fell = TRUE,
                    !.fallback = handle_list_inspections_fallback(check.table,
                                                                  check.event_body)]
    /\ UNCHANGED <<meta, items, venues, faultsLeft, clock, calls, creates, pc, Locals,
                   resp, everLocked, History>>

NextFallback == ListInspections \/ ListInspectionsFallback

SpecFallback == InitFallback /\ [][NextFallback]_vars

\* C39: for every content of the Metadata table and every completedLimit,
\* the scan+sort+slice fallback returns the same completed sequence (same
\* records, same order) as the query of the completion-time index.
\* Violated: the scan's filter takes the completed rows that have no
\* completedAt, which the sparse index leaves out, and it orders by the
\* parsed instant where the index orders by the string.
C39_FallbackSameAsIndex ==
    (check.done /\ check.fell) => check.fallback.completed = check.response.completed

\* every completed row has a completedAt written by _now_local_iso()
ServerDated(table) ==
    \A i \in DOMAIN table :
        table[i].status = "completed" =>
            \E n \in 1..MaxRows : table[i].completedAt = NowIso(n)

\* the two paths agree on the tables whose completed rows all carry a
\* completedAt of the server's clock, and always on the ongoing rows
FallbackSameForServerDated ==
    (check.done /\ check.fell) =>
        /\ check.fallback.ongoing = check.response.ongoing
        /\ ServerDated(check.table) =>
               check.fallback.completed = check.response.completed

-----------------------------------------------------------------------------
(* The counts of a completeness result, under the pure-function               *)
(* specification                                                             *)

\* the positions of the Expected Set whose row in the store is pass
ExpectedPass(store, expected) ==
    {n \in 1..Len(expected) :
        \E k \in DOMAIN store :
            /\ store[k].roomId = expected[n][1]
            /\ store[k].itemId = expected[n][2]
            /\ store[k].status \in {"pass", "PASS", "Pass"}}

\* C40: in every result of check_inspection_complete for a non-empty
\* Expected Set, completed_count is the number of Expected Set pairs whose
\* status is pass, so completed_count <= total_expected, and complete is
\* true exactly when completed_count = total_expected.
\* Violated: pass_count counts every pass row of the inspection that has a
\* roomId and an itemId, the rows outside the Expected Set with them.
C40_CountIsExpectedPass ==
    LET expected == ExpectedItems(VenueGet(venues, check.venueId).rooms)
        r == check.result
    IN  (check # NoCheck /\ Len(expected) > 0) =>
            /\ r.completed_count = Cardinality(ExpectedPass(items, expected))
            /\ r.completed_count <= r.total_expected
            /\ r.complete <=> (r.completed_count = r.total_expected)

\* every row of the store with a roomId and an itemId is a pair of the
\* Expected Set
WithinExpected(store, expected) ==
    \A k \in DOMAIN store :
        (Truthy(Get(store[k].roomId)) /\ Truthy(Get(store[k].itemId))) =>
            \E n \in 1..Len(expected) :
                expected[n] = <<store[k].roomId, store[k].itemId>>

\* the counts are as C40 states them when the inspection has no item row
\* outside the Expected Set; in every result total_expected is the size of
\* the Expected Set, and a complete result counts at least that many
CountIsExpectedPassWithinExpected ==
    LET expected == ExpectedItems(VenueGet(venues, check.venueId).rooms)
        r == check.result
    IN  (check # NoCheck /\ Len(expected) > 0) =>
            /\ r.total_expected = Len(expected)
            /\ r.complete => r.completed_count >= r.total_expected
            /\ WithinExpected(items, expected) =>
                  /\ r.completed_count = Cardinality(ExpectedPass(items, expected))
                  /\ r.completed_count <= r.total_expected
                  /\ r.complete <=> (r.completed_count = r.total_expected)

====
